---- MODULE Spec2Model ----
(***************************************************************************)
(* claude-reflect: the reflection dialog engine, the step-based session    *)
(* API (daily and project) and the timeline aggregation, as state          *)
(* machines.                                                               *)
(*                                                                         *)
(*   DialogSpec    core/reflection.ts  DialogStateMachine                  *)
(*   Spec          commands/daily-reflect.ts, commands/project-reflect.ts  *)
(*   TimelineSpec  core/aggregator.ts  DataAggregator.getDailyTimeline     *)
(***************************************************************************)
EXTENDS Integers, Sequences, FiniteSets, TLC

VARIABLES
  context,                \* DialogStateMachine.context
  lastResult,             \* what the last start() / processAnswer() returned
  hist,                   \* history of the dialog: counters over the calls made
  currentSession,         \* daily-reflect.ts  currentSession  (<<>> is null)
  currentProjectSession,  \* project-reflect.ts currentProjectSession
  aggregators,            \* DataAggregator instances: created so far, still open
  files,                  \* report files and backups on disk
  clock,                  \* new Date(): one tick per generated report
  lastCall,               \* what the last step-API call returned
  tl,                     \* one getDailyTimeline call: inputs, position, output
  fn                      \* one call of a pure operation: inputs, position, result

vars == <<context, lastResult, hist, currentSession, currentProjectSession,
          aggregators, files, clock, lastCall, tl, fn>>

dialogVars == <<context, lastResult, hist>>
apiVars == <<currentSession, currentProjectSession, aggregators, files, clock, lastCall>>

(***************************************************************************)
(* Bounds of the model.                                                    *)
(***************************************************************************)
MaxQuestions == 3

MaxObservations == 2

MaxCommits == 3

MaxSubmits == 2 * MaxQuestions + 1

(***************************************************************************)
(* Values.  null / undefined is the empty sequence, a present value v is   *)
(* the one-element sequence <<v>>.                                         *)
(***************************************************************************)
Null == <<>>

Some(v) == <<v>>

\* A string is falsy in JavaScript exactly when it is empty.
Truthy(s) == s # ""

(***************************************************************************)
(* Answers.  An answer is a string made of `spaces` characters of leading  *)
(* and trailing white space around a core of `text` characters that starts *)
(* and ends with a non-blank character.  keyword: the core contains one of *)
(* the words learned, understand, mastered, discovered, realized, in any   *)
(* case; sentence: the length of the match of /^[^.!?]+[.!?]/ on the core, *)
(* 0 when there is none.                                                   *)
(***************************************************************************)
AnswerPool ==
  {[spaces |-> 11, text |-> 0, keyword |-> FALSE, sentence |-> 0],    \* blank
   [spaces |-> 0, text |-> 19, keyword |-> FALSE, sentence |-> 0],    \* one character short
   [spaces |-> 11, text |-> 19, keyword |-> FALSE, sentence |-> 0],   \* short once trimmed, 30 characters raw
   [spaces |-> 0, text |-> 20, keyword |-> FALSE, sentence |-> 0]}    \* just long enough

\* String.prototype.length
Length(answer) == answer.spaces + answer.text

\* String.prototype.trim
Trim(answer) == [answer EXCEPT !.spaces = 0]

(***************************************************************************)
(* core/reflection.ts : DialogStateMachine                                 *)
(***************************************************************************)
FollowUpMinLength == 20

MaxFollowUps == 1

QuestionIds == {"q1", "q2"}

QuestionPool ==
  {[id |-> i, category |-> "technical", question |-> "Q", follow_up |-> f] :
     i \in QuestionIds, f \in {"", "F"}}

QuestionLists == UNION {[1..n -> QuestionPool] : n \in 0..MaxQuestions}

\* constructor(questions)
NewContext(questions) ==
  [state |-> "idle",
   currentQuestionIndex |-> 0,
   questions |-> questions,
   answers |-> <<>>,
   followUpCount |-> 0]

\* getCurrentQuestion(): null once the (0-based) index is past the list
GetCurrentQuestion(ctx) ==
  IF ctx.currentQuestionIndex >= Len(ctx.questions)
    THEN Null
    ELSE Some(ctx.questions[ctx.currentQuestionIndex + 1])

\* getState(), isComplete(), getProgress()
IsComplete(ctx) == ctx.state = "complete"

GetProgress(ctx) ==
  [current |-> ctx.currentQuestionIndex + 1, total |-> Len(ctx.questions)]

\* start(): the state becomes asking whatever it was
StartDialog(ctx) ==
  [ctx |-> [ctx EXCEPT !.state = "asking"],
   question |-> GetCurrentQuestion(ctx)]

PutAnswer_KeepFirst(answers, id, answer) ==
  [k \in (DOMAIN answers) \cup {id} |-> IF k \in DOMAIN answers THEN answers[k] ELSE answer]

PutAnswer_Dropped(answers, id, answer) == answers

\* answers[id] = answer
PutAnswer(answers, id, answer) ==
  [k \in (DOMAIN answers) \cup {id} |-> IF k = id THEN answer ELSE answers[k]]

NeedsFollowUp_Unbounded(ctx, q, answer) ==
  Trim(answer).text < FollowUpMinLength /\ Truthy(q.follow_up)

NeedsFollowUp_Inclusive(ctx, q, answer) ==
  /\ Trim(answer).text <= FollowUpMinLength
  /\ ctx.followUpCount < MaxFollowUps
  /\ Truthy(q.follow_up)

\* answerLength < 20 && followUpCount < 1 && currentQuestion.follow_up
NeedsFollowUp(ctx, q, answer) ==
  /\ Length(Trim(answer)) < FollowUpMinLength
  /\ ctx.followUpCount < MaxFollowUps
  /\ Truthy(q.follow_up)

AllDone_FallsThrough(ctx) ==
  [ctx |-> [ctx EXCEPT !.state = "complete",
                       !.currentQuestionIndex = @ + 1,
                       !.followUpCount = 0],
   action |-> "complete",
   question |-> Null]

\* processAnswer, no current question: the state becomes complete
AllDone(ctx) ==
  [ctx |-> [ctx EXCEPT !.state = "complete"],
   action |-> "complete",
   question |-> Null]

\* processAnswer, the follow-up branch
AskFollowUp(ctx, q) ==
  [ctx |-> [ctx EXCEPT !.state = "following_up", !.followUpCount = @ + 1],
   action |-> "follow_up",
   question |-> Some([q EXCEPT !.question = q.follow_up,
                               !.id = q.id \o "-followup"])]

\* processAnswer, "Move to next question"
MoveToNext(ctx) ==
  LET moved == [ctx EXCEPT !.currentQuestionIndex = @ + 1, !.followUpCount = 0]
      nextQuestion == GetCurrentQuestion(moved)
  IN  IF nextQuestion = Null
        THEN [ctx |-> [moved EXCEPT !.state = "complete"],
              action |-> "complete",
              question |-> Null]
        ELSE [ctx |-> [moved EXCEPT !.state = "asking"],
              action |-> "next",
              question |-> nextQuestion]

\* processAnswer(answer): the new context, the action and the question returned
ProcessAnswer(ctx, answer) ==
  LET currentQuestion == GetCurrentQuestion(ctx)
  IN  IF currentQuestion = Null
        THEN AllDone(ctx)
        ELSE LET q == currentQuestion[1]
                 saved == [ctx EXCEPT !.answers = PutAnswer(@, q.id, answer)]
             IN  IF NeedsFollowUp(saved, q, answer)
                   THEN AskFollowUp(saved, q)
                   ELSE MoveToNext(saved)

(***************************************************************************)
(* JavaScript numbers, as far as the timeline needs them: an integer or    *)
(* NaN.                                                                    *)
(***************************************************************************)
Num(v) == [nan |-> FALSE, v |-> v]

NaN == [nan |-> TRUE, v |-> 0]

\* a - b
Minus(a, b) == IF a.nan \/ b.nan THEN NaN ELSE Num(a.v - b.v)

\* x < 0, which is false of NaN
Negative(x) == ~x.nan /\ x.v < 0

\* a <= b, which is false as soon as one side is NaN
Leq(a, b) == ~a.nan /\ ~b.nan /\ a.v <= b.v

\* a === b on numbers: NaN equals nothing
NumEq(a, b) == ~a.nan /\ ~b.nan /\ a.v = b.v

(***************************************************************************)
(* Array.prototype.sort with a comparator (a, b) => key(a) - key(b), over  *)
(* a sequence of [key, item] pairs.  The runtime (Bun, JavaScriptCore)     *)
(* sorts by a bottom-up merge sort: runs of width 1, 2, 4, ... are merged, *)
(* and the right element is taken first only when the comparator returns a *)
(* value < 0 for (right, left).  It is stable for a consistent comparator. *)
(***************************************************************************)
RECURSIVE Merge(_, _)
Merge(left, right) ==
  IF right = <<>> THEN left
  ELSE IF left = <<>> THEN right
  ELSE IF Negative(Minus(right[1].key, left[1].key))
    THEN <<right[1]>> \o Merge(left, Tail(right))
    ELSE <<left[1]>> \o Merge(Tail(left), right)

Min(a, b) == IF a <= b THEN a ELSE b

RECURSIVE MergePass(_, _)
MergePass(seq, width) ==
  IF Len(seq) <= width THEN seq
  ELSE LET rightEnd == Min(2 * width, Len(seq))
       IN  Merge(SubSeq(seq, 1, width), SubSeq(seq, width + 1, rightEnd))
             \o MergePass(SubSeq(seq, rightEnd + 1, Len(seq)), width)

RECURSIVE MergeSortFrom(_, _)
MergeSortFrom(seq, width) ==
  IF width >= Len(seq) THEN seq
  ELSE MergeSortFrom(MergePass(seq, width), 2 * width)

ArraySort(pairs) == MergeSortFrom(pairs, 1)

Items(pairs) == [i \in 1..Len(pairs) |-> pairs[i].item]

(***************************************************************************)
(* integrations/git.ts : the commit header line.                           *)
(* git log --format="%H|%s|%an|%ae|%aI" emits the five fields joined by    *)
(* "|".  A line is modelled by what split("|") makes of it: its sequence   *)
(* of "|"-free pieces.  A subject that itself contains "|" contributes     *)
(* more than one piece.                                                    *)
(***************************************************************************)
\* %aI dates and the instant (in hours) each one denotes; the second one is
\* the first one written with another UTC offset
IsoEpoch ==
  ("2026-02-03T05:00:00+00:00" :> 5
   @@ "2026-02-03T07:00:00+02:00" :> 5
   @@ "2026-02-03T06:00:00+00:00" :> 6
   @@ "2026-02-04T05:00:00+00:00" :> 29)

IsoDates == DOMAIN IsoEpoch

\* the dates of 2026-02-03
DailyDates == {s \in IsoDates : IsoEpoch[s] < 24}

\* new Date(s).getTime(): NaN unless s is a date
DateGetTime(s) == IF s \in IsoDates THEN Num(IsoEpoch[s]) ELSE NaN

\* the header line git writes for a commit
HeaderLine(c) == <<c.hash>> \o c.subject \o <<c.author, c.email, c.date>>

\* parts[i] || ''   (i is 0-based)
PartOr(parts, i) == IF i + 1 <= Len(parts) THEN parts[i + 1] ELSE ""

\* parseCommitHeader(line), then finalizeCommit
ParseCommitHeader(parts) ==
  [hash |-> PartOr(parts, 0),
   message |-> PartOr(parts, 1),
   author |-> PartOr(parts, 2),
   email |-> PartOr(parts, 3),
   timestamp |-> PartOr(parts, 4)]

\* getCommits(): parseGitLog over the header lines of the log
ParseGitLog(log) == [i \in 1..Len(log) |-> ParseCommitHeader(HeaderLine(log[i]))]

(***************************************************************************)
(* integrations/git.ts : the lines of the log output.                      *)
(* git log --format=... --numstat writes, per commit, the header line and  *)
(* one line per file changed.  A line is modelled by what the code asks of *)
(* it: whether it starts and ends with a double quote, the "|"-free pieces *)
(* of the text between the quotes, and the words split(/\s+/) makes of    *)
(* the trimmed line (one empty word when the line is blank).               *)
(***************************************************************************)
\* the 40-digit hashes in use
FullHashes ==
  {"1f3a5c7e9b1d3f5a7c9e1b3d5f7a9c1e3b5d7f9a",
   "2e4b6d8fa0c2e4b6d8fa0c2e4b6d8fa0c2e4b6d8"}

\* /^[a-f0-9]{40}\|/.test(line) || (line.startsWith('"') && line.includes('|'))
IsCommitLine(line) ==
  \/ ~line.openQuote /\ Len(line.pieces) > 1 /\ line.pieces[1] \in FullHashes
  \/ line.openQuote /\ Len(line.pieces) > 1

\* line.trim() as a condition: false of a blank line
IsBlank(line) == line.words = <<"">>

\* parseInt(word, 10) of the words in use that start with digits
Digits == ("0" :> 0 @@ "1" :> 1 @@ "2" :> 2 @@ "5" :> 5)

\* parts[i] === '-' ? 0 : parseInt(parts[i], 10) || 0
ParseCount(word) ==
  IF word = "-" THEN 0
  ELSE IF word \in DOMAIN Digits THEN Digits[word] ELSE 0

\* parts.slice(2).join(' ')
RECURSIVE JoinFrom(_, _)
JoinFrom(words, i) ==
  IF i > Len(words) THEN ""
  ELSE IF i = Len(words) THEN words[i]
  ELSE words[i] \o " " \o JoinFrom(words, i + 1)

\* parts.length < 3
TooFewParts(parts) == Len(parts) < 3

\* parseNumstatLine(line): the file change, or null
ParseNumstatLine(line) ==
  LET parts == line.words
      path == JoinFrom(parts, 3)
  IN  IF TooFewParts(parts) THEN Null
      ELSE IF path = "" THEN Null
      ELSE Some([path |-> path,
                 additions |-> ParseCount(parts[1]),
                 deletions |-> ParseCount(parts[2])])

\* files.reduce((sum, f) => sum + f[field], 0)
RECURSIVE SumOf(_, _)
SumOf(changes, field) ==
  IF changes = <<>> THEN 0 ELSE Head(changes)[field] + SumOf(Tail(changes), field)

\* finalizeCommit(commit, files)
FinalizeCommit(commit, changes) ==
  [hash |-> commit.hash,
   message |-> commit.message,
   author |-> commit.author,
   email |-> commit.email,
   timestamp |-> commit.timestamp,
   files_changed |-> Len(changes),
   additions |-> SumOf(changes, "additions"),
   deletions |-> SumOf(changes, "deletions"),
   files |-> changes]

\* the loop of parseGitLog from line i on, with the commits pushed so far,
\* currentCommit (or null) and currentFiles
RECURSIVE ParseLines(_, _, _, _, _)
ParseLines(lines, i, commits, currentCommit, currentFiles) ==
  LET pushed == IF currentCommit = Null THEN commits
                ELSE Append(commits, FinalizeCommit(currentCommit[1], currentFiles))
  IN  IF i > Len(lines) THEN pushed
      ELSE IF IsCommitLine(lines[i])
        THEN ParseLines(lines, i + 1, pushed,
                        Some(ParseCommitHeader(lines[i].pieces)), <<>>)
      ELSE IF ~IsBlank(lines[i]) /\ currentCommit # Null
        THEN LET fileChange == ParseNumstatLine(lines[i])
             IN  ParseLines(lines, i + 1, commits, currentCommit,
                            IF fileChange # Null
                              THEN Append(currentFiles, fileChange[1])
                              ELSE currentFiles)
      ELSE ParseLines(lines, i + 1, commits, currentCommit, currentFiles)

\* output.trim().split('\n'): no blank line at either end, and one blank
\* line when nothing is left
RECURSIVE TrimOutput(_)
TrimOutput(output) ==
  IF output = <<>> THEN <<[openQuote |-> FALSE, closeQuote |-> FALSE,
                           pieces |-> <<"">>, words |-> <<"">>]>>
  ELSE IF IsBlank(Head(output)) THEN TrimOutput(Tail(output))
  ELSE IF IsBlank(output[Len(output)])
    THEN TrimOutput(SubSeq(output, 1, Len(output) - 1))
  ELSE output

\* parseGitLog(output)
ParseGitLogLines(output) == ParseLines(TrimOutput(output), 1, <<>>, Null, <<>>)

OnFailure_Rethrown(error) == [threw |-> TRUE, commits |-> <<>>, invoked |-> TRUE]

\* catch (error) { console.error(...); return []; }
OnFailure(error) == [threw |-> FALSE, commits |-> <<>>, invoked |-> TRUE]

\* getCommits(options) on a repository: whether the path has a .git entry,
\* where the try block fails if it does, and the output of the command
GetCommits(repo) ==
  IF ~repo.isGitRepo
    THEN [threw |-> FALSE, commits |-> <<>>, invoked |-> FALSE]
  ELSE IF repo.failure # "none" THEN OnFailure(repo.failure)
  ELSE [threw |-> FALSE, commits |-> ParseGitLogLines(repo.output), invoked |-> TRUE]

(***************************************************************************)
(* core/aggregator.ts : DataAggregator.getDailyTimeline                    *)
(***************************************************************************)
\* projectPaths
ProjectPaths == <<"repoA", "repoB">>

\* getGitCommits(date): the commits of every project path that is a git
\* repository, concatenated in path order and sorted by time
RECURSIVE ConcatLogs(_, _)
ConcatLogs(repos, i) ==
  IF i > Len(ProjectPaths) THEN <<>>
  ELSE (IF repos[ProjectPaths[i]].isGitRepo
          THEN ParseGitLog(repos[ProjectPaths[i]].log)
          ELSE <<>>)
       \o ConcatLogs(repos, i + 1)

GetGitCommits(repos) ==
  LET allCommits == ConcatLogs(repos, 1)
  IN  Items(ArraySort([i \in 1..Len(allCommits) |->
                         [key |-> DateGetTime(allCommits[i].timestamp),
                          item |-> allCommits[i]]]))

\* hash.substring(0, 8): a hash is its first 8 characters (head) and the rest
Substring8(hash) == hash.head

\* observationToEvent(obs)
ObservationToEvent(obs) ==
  [id |-> "obs-" \o ToString(obs.id),
   source |-> "claude-mem",
   timestamp |-> Num(obs.created_at_epoch),
   title |-> obs.title]

\* commitToEvent(commit)
CommitToEvent(commit) ==
  [id |-> "commit-" \o Substring8(commit.hash),
   source |-> "git",
   timestamp |-> DateGetTime(commit.timestamp),
   title |-> commit.message]

\* [...observationEvents, ...commitEvents]
ConcatEvents(observations, commits) ==
  [i \in 1..Len(observations) |-> ObservationToEvent(observations[i])]
    \o [i \in 1..Len(commits) |-> CommitToEvent(commits[i])]

\* the events of getDailyTimeline(date), given the observations the client
\* returned and the repositories' logs for the date
SortEvents(events) ==
  Items(ArraySort([i \in 1..Len(events) |->
                     [key |-> events[i].timestamp, item |-> events[i]]]))

GetDailyTimelineEvents(observations, repos) ==
  SortEvents(ConcatEvents(observations, GetGitCommits(repos)))

(***************************************************************************)
(* Strings that the code looks into.  A string is atomic in the model;     *)
(* Spelling gives the characters of the commit messages in use, and the    *)
(* string methods are computed on the characters.                          *)
(***************************************************************************)
Spelling ==
  ("fix: parser" :> <<"f","i","x",":"," ","p","a","r","s","e","r">>
   @@ "feat: a" :> <<"f","e","a","t",":"," ","a">>
   @@ "b" :> <<"b">>
   @@ "docs: a" :> <<"d","o","c","s",":"," ","a">>
   @@ "Fix(ui): x" :> <<"F","i","x","(","u","i",")",":"," ","x">>
   @@ "fixture data" :> <<"f","i","x","t","u","r","e"," ","d","a","t","a">>
   @@ "bugfix: npe" :> <<"b","u","g","f","i","x",":"," ","n","p","e">>
   @@ "chore: fix typo" :> <<"c","h","o","r","e",":"," ","f","i","x"," ","t","y","p","o">>
   @@ "Revert x" :> <<"R","e","v","e","r","t"," ","x">>
   @@ "chore: revert x" :> <<"c","h","o","r","e",":"," ","r","e","v","e","r","t"," ","x">>
   @@ "Merge pr" :> <<"M","e","r","g","e"," ","p","r">>
   @@ "urgent HOTFIX" :> <<"u","r","g","e","n","t"," ","H","O","T","F","I","X">>
   @@ "hotfix: db" :> <<"h","o","t","f","i","x",":"," ","d","b">>
   @@ "refactor: core" :> <<"r","e","f","a","c","t","o","r",":"," ","c","o","r","e">>
   @@ "debug output" :> <<"d","e","b","u","g"," ","o","u","t","p","u","t">>
   @@ "update documents" :> <<"u","p","d","a","t","e"," ","d","o","c","u","m","e","n","t","s">>
   @@ "Fix padding" :> <<"F","i","x"," ","p","a","d","d","i","n","g">>
   @@ "Add login" :> <<"A","d","d"," ","l","o","g","i","n">>
   @@ "latest build" :> <<"l","a","t","e","s","t"," ","b","u","i","l","d">>
   @@ "build: ci" :> <<"b","u","i","l","d",":"," ","c","i">>
   @@ "test: x" :> <<"t","e","s","t",":"," ","x">>
   @@ "bump version" :> <<"b","u","m","p"," ","v","e","r","s","i","o","n">>
   @@ "" :> <<>>)

UpperToLower ==
  ("F" :> "f" @@ "R" :> "r" @@ "M" :> "m" @@ "H" :> "h" @@ "O" :> "o"
   @@ "T" :> "t" @@ "I" :> "i" @@ "X" :> "x" @@ "A" :> "a")

\* String.prototype.toLowerCase, startsWith and includes, on characters
ToLowerCase(chars) ==
  [i \in 1..Len(chars) |->
     IF chars[i] \in DOMAIN UpperToLower THEN UpperToLower[chars[i]] ELSE chars[i]]

StartsWith(chars, pattern) ==
  Len(pattern) <= Len(chars) /\ SubSeq(chars, 1, Len(pattern)) = pattern

Includes(chars, pattern) ==
  \E i \in 0..(Len(chars) - Len(pattern)) :
    SubSeq(chars, i + 1, i + Len(pattern)) = pattern

(***************************************************************************)
(* core/aggregator.ts : the type of a commit, and the by_type statistics.  *)
(***************************************************************************)
IsBugfix_FixAnywhere(lowerMessage) ==
  Includes(lowerMessage, <<"f","i","x">>) \/ Includes(lowerMessage, <<"b","u","g">>)

\* lowerMessage.startsWith('fix') || lowerMessage.includes('bug')
IsBugfix(lowerMessage) ==
  StartsWith(lowerMessage, <<"f","i","x">>) \/ Includes(lowerMessage, <<"b","u","g">>)

\* inferCommitType(message)
InferCommitType(message) ==
  LET lowerMessage == ToLowerCase(Spelling[message])
  IN  IF IsBugfix(lowerMessage) THEN "bugfix"
      ELSE IF StartsWith(lowerMessage, <<"f","e","a","t">>)
           \/ Includes(lowerMessage, <<"a","d","d">>) THEN "feature"
      ELSE IF StartsWith(lowerMessage, <<"r","e","f","a","c","t","o","r">>)
           \/ Includes(lowerMessage, <<"r","e","f","a","c","t","o","r">>) THEN "refactor"
      ELSE IF StartsWith(lowerMessage, <<"d","o","c","s">>)
           \/ Includes(lowerMessage, <<"d","o","c">>) THEN "docs"
      ELSE IF StartsWith(lowerMessage, <<"t","e","s","t">>)
           \/ Includes(lowerMessage, <<"t","e","s","t">>) THEN "test"
      ELSE IF StartsWith(lowerMessage, <<"c","h","o","r","e">>)
           \/ StartsWith(lowerMessage, <<"b","u","i","l","d">>) THEN "chore"
      ELSE "change"

\* commitToEvent(commit).type
CommitEventType(commit) == InferCommitType(commit.message)

\* computeStats(observations, commits).by_type: a count for each type met
ByType(observations, commits) ==
  LET types == [i \in 1..Len(observations) |-> observations[i].type]
                 \o [i \in 1..Len(commits) |-> InferCommitType(commits[i].message)]
  IN  [t \in {types[i] : i \in 1..Len(types)} |->
         Cardinality({i \in 1..Len(types) : types[i] = t})]

(***************************************************************************)
(* core/aggregator.ts : DataAggregator.aggregateProject (the commits) and  *)
(* sampleCommits                                                           *)
(***************************************************************************)
\* The threshold above which aggregateProject samples, and the target
\* count it passes to sampleCommits.  It is 200 in the code; the histories
\* of the model are short, and the model takes a threshold they can exceed.
\* No definition depends on its value.
SampleThreshold == 5

\* sampleCommits, step 1: is this a fix / revert / merge / hotfix commit
IsHighImportance(commit) ==
  LET msg == ToLowerCase(Spelling[commit.message])
  IN  \/ StartsWith(msg, <<"f","i","x">>)
      \/ StartsWith(msg, <<"r","e","v","e","r","t">>)
      \/ StartsWith(msg, <<"m","e","r","g","e">>)
      \/ Includes(msg, <<"h","o","t","f","i","x">>)

KeepImportant_Skipped(commits, i, acc) == acc

\* the pair [sampled, seen] after the first loop has visited commits[i..]
RECURSIVE KeepImportant(_, _, _)
KeepImportant(commits, i, acc) ==
  IF i > Len(commits) THEN acc
  ELSE LET commit == commits[i]
       IN  IF IsHighImportance(commit) /\ commit.hash \notin acc.seen
             THEN KeepImportant(commits, i + 1,
                                [sampled |-> Append(acc.sampled, commit),
                                 seen |-> acc.seen \cup {commit.hash}])
             ELSE KeepImportant(commits, i + 1, acc)

StrideGoesOn_Uncapped(commits, i, acc, targetCount) == i < Len(commits)


\* the loop condition  i < commits.length && sampled.length < targetCount
\* (i is 0-based)
StrideGoesOn(commits, i, acc, targetCount) ==
  i < Len(commits) /\ Len(acc.sampled) < targetCount

\* the second loop, from index i (0-based) on, in steps of step
RECURSIVE Stride(_, _, _, _, _)
Stride(commits, i, step, acc, targetCount) ==
  IF ~StrideGoesOn(commits, i, acc, targetCount) THEN acc
  ELSE LET commit == commits[i + 1]
       IN  IF commit.hash \notin acc.seen
             THEN Stride(commits, i + step, step,
                         [sampled |-> Append(acc.sampled, commit),
                          seen |-> acc.seen \cup {commit.hash}],
                         targetCount)
             ELSE Stride(commits, i + step, step, acc, targetCount)

\* allCommits.sort / sampled.sort by new Date(timestamp).getTime()
SortByTime(commits) ==
  Items(ArraySort([i \in 1..Len(commits) |->
                     [key |-> DateGetTime(commits[i].timestamp),
                      item |-> commits[i]]]))

\* sampleCommits(commits, targetCount)
SampleCommits(commits, targetCount) ==
  IF Len(commits) <= targetCount THEN commits
  ELSE LET kept == KeepImportant(commits, 1, [sampled |-> <<>>, seen |-> {}])
           remaining == targetCount - Len(kept.sampled)
           filled == IF remaining > 0
                       THEN Stride(commits, 0, Len(commits) \div remaining,
                                   kept, targetCount)
                       ELSE kept
       IN  SortByTime(filled.sampled)

\* aggregateProject: the commits read from the repositories, in the order
\* of the repository list
RECURSIVE ReadRepos(_)
ReadRepos(repos) ==
  IF repos = <<>> THEN <<>>
  ELSE (IF Head(repos).isGitRepo THEN ParseGitLog(Head(repos).log) ELSE <<>>)
         \o ReadRepos(Tail(repos))

\* aggregateProject(repos): allCommits sorted, and the commits it returns
AggregateProject(repos) ==
  LET allCommits == SortByTime(ReadRepos(repos))
  IN  [allCommits |-> allCommits,
       commits |-> IF Len(allCommits) > SampleThreshold
                     THEN SampleCommits(allCommits, SampleThreshold)
                     ELSE allCommits,
       stats |-> [total_commits |-> Len(allCommits)]]

(***************************************************************************)
(* core/pitfall.ts : PitfallDetector.  A commit is a GitCommit with its    *)
(* files.  A file path, and every string built with ':' around one, is the *)
(* sequence of its pieces between the ':' characters, so that two such     *)
(* strings are equal exactly when their piece sequences are.               *)
(***************************************************************************)
\* timestamp.split('T')[0]: the day of an ISO timestamp, and the whole of
\* a string without a 'T'
IsoDay ==
  ("2026-02-03T05:00:00+00:00" :> "2026-02-03"
   @@ "2026-02-03T06:00:00+00:00" :> "2026-02-03"
   @@ "2026-02-04T05:00:00+00:00" :> "2026-02-04")

SplitT0(timestamp) ==
  IF timestamp \in DOMAIN IsoDay THEN IsoDay[timestamp] ELSE timestamp

\* message.substring(0, n)
Substring0(chars, n) == SubSeq(chars, 1, Min(n, Len(chars)))

\* a description: the template literal, the values put into it, and the
\* " (N related signals)" suffixes appended to it
Describe(template, chars, strs, nums) ==
  [template |-> template, chars |-> chars, strs |-> strs, nums |-> nums,
   related |-> <<>>]

\* detectRevertCommits
IsRevert(commit) ==
  LET msg == ToLowerCase(Spelling[commit.message])
  IN  \/ StartsWith(msg, <<"r","e","v","e","r","t">>)
      \/ Includes(msg, <<"r","e","v","e","r","t",":">>)
      \/ Includes(msg, <<"r","e","v","e","r","t"," ","\"">>)

RevertSignal(commit) ==
  [type |-> "revert", file |-> Null, date |-> SplitT0(commit.timestamp),
   commits |-> <<Substring8(commit.hash)>>, severity |-> "high",
   description |-> Describe("Revert commit: ${}",
                            Substring0(Spelling[commit.message], 50), <<>>, <<>>)]

DetectRevertCommits(commits) ==
  LET reverts == SelectSeq(commits, IsRevert)
  IN  [i \in 1..Len(reverts) |-> RevertSignal(reverts[i])]

\* detectFixCommits
IsFix(commit) ==
  LET msg == ToLowerCase(Spelling[commit.message])
  IN  \/ StartsWith(msg, <<"f","i","x",":">>)
      \/ StartsWith(msg, <<"f","i","x","(">>)
      \/ StartsWith(msg, <<"h","o","t","f","i","x",":">>)
      \/ StartsWith(msg, <<"h","o","t","f","i","x","(">>)
      \/ StartsWith(msg, <<"b","u","g","f","i","x",":">>)
      \/ StartsWith(msg, <<"b","u","g","f","i","x","(">>)

ManyFixes_Inclusive(fixCommits) == Len(fixCommits) >= 3

\* fixCommits.length > 3
ManyFixes(fixCommits) == Len(fixCommits) > 3

FixSignal(commit) ==
  [type |-> "fix", file |-> Null, date |-> SplitT0(commit.timestamp),
   commits |-> <<Substring8(commit.hash)>>, severity |-> "low",
   description |-> Describe("Fix: ${}",
                            Substring0(Spelling[commit.message], 50), <<>>, <<>>)]

DetectFixCommits(commits) ==
  LET fixCommits == SelectSeq(commits, IsFix)
  IN  IF ManyFixes(fixCommits)
        THEN <<[type |-> "fix", file |-> Null,
                date |-> SplitT0(fixCommits[1].timestamp),
                commits |-> [i \in 1..Min(5, Len(fixCommits)) |->
                               Substring8(fixCommits[i].hash)],
                severity |-> "medium",
                description |-> Describe("Multiple fix commits (${} total)",
                                         <<>>, <<>>, <<Len(fixCommits)>>)]>>
        ELSE [i \in 1..Len(fixCommits) |-> FixSignal(fixCommits[i])]

\* detectHighFrequencyFiles: one entry per (commit, file), in the order of
\* the two loops, with the key `${date}:${file.path}`
RECURSIVE Touches(_)
Touches(commits) ==
  IF commits = <<>> THEN <<>>
  ELSE LET commit == Head(commits)
           date == SplitT0(commit.timestamp)
       IN  [j \in 1..Len(commit.files) |->
              [key |-> <<date>> \o commit.files[j].path, date |-> date,
               hash |-> Substring8(commit.hash)]]
             \o Touches(Tail(commits))

\* Object.entries(fileChanges): the keys in the order of their first touch
FileChanges(commits) ==
  LET touches == Touches(commits)
      IsFirst(i) == \A j \in 1..(i - 1) : touches[j].key # touches[i].key
      firsts == SelectSeq([i \in 1..Len(touches) |-> i], IsFirst)
  IN  [g \in 1..Len(firsts) |->
         LET key == touches[firsts[g]].key
             HasKey(touch) == touch.key = key
             mine == SelectSeq(touches, HasKey)
         IN  [key |-> key, date |-> touches[firsts[g]].date,
              commits |-> [i \in 1..Len(mine) |-> mine[i].hash],
              count |-> Len(mine)]]

\* const [date, filePath] = key.split(':'), and the signal pushed
HighFrequencySignal(entry) ==
  LET date == entry.key[1]
      filePath == entry.key[2]
  IN  [type |-> "high_frequency", file |-> Some(<<filePath>>),
       date |-> entry.date,
       commits |-> SubSeq(entry.commits, 1, Min(5, Len(entry.commits))),
       severity |-> IF entry.count >= 5 THEN "high" ELSE "medium",
       description |-> Describe("File ${} was modified ${} times on ${}",
                                <<>>, <<filePath, date>>, <<entry.count>>)]

IsFrequent(entry) == entry.count >= 3

DetectHighFrequencyFiles(commits) ==
  LET frequent == SelectSeq(FileChanges(commits), IsFrequent)
  IN  [i \in 1..Len(frequent) |-> HighFrequencySignal(frequent[i])]

\* detectMassiveRefactors
IsMassiveRefactor(commit) ==
  /\ commit.additions > 100
  /\ commit.deletions > 100
  /\ LET msg == ToLowerCase(Spelling[commit.message])
     IN  \/ Includes(msg, <<"r","e","f","a","c","t","o","r">>)
         \/ Includes(msg, <<"r","e","w","r","i","t","e">>)
         \/ Includes(msg, <<"r","e","s","t","r","u","c","t","u","r","e">>)

DetectMassiveRefactors(commits) ==
  LET massive == SelectSeq(commits, IsMassiveRefactor)
  IN  [i \in 1..Len(massive) |->
         [type |-> "massive_refactor", file |-> Null,
          date |-> SplitT0(massive[i].timestamp),
          commits |-> <<Substring8(massive[i].hash)>>, severity |-> "medium",
          description |-> Describe("Massive refactor: +${}/-${} (${})",
                                   Substring0(Spelling[massive[i].message], 30), <<>>,
                                   <<massive[i].additions, massive[i].deletions>>)]]

DetectFromCommits(commits) ==
  DetectRevertCommits(commits) \o DetectFixCommits(commits)
    \o DetectHighFrequencyFiles(commits) \o DetectMassiveRefactors(commits)

\* mergeSignals: the key  signal.file ? `${type}:${file}` : type
HasFile(signal) == signal.file # Null /\ signal.file[1] # <<"">>

GroupKey(signal) ==
  IF HasFile(signal) THEN <<signal.type>> \o signal.file[1] ELSE <<signal.type>>

\* Object.values(groups): the groups in the order of their first signal
Groups(signals) ==
  LET IsFirst(i) ==
        \A j \in 1..(i - 1) : GroupKey(signals[j]) # GroupKey(signals[i])
      firsts == SelectSeq([i \in 1..Len(signals) |-> i], IsFirst)
  IN  [g \in 1..Len(firsts) |->
         LET key == GroupKey(signals[firsts[g]])
             HasKey(signal) == GroupKey(signal) = key
         IN  SelectSeq(signals, HasKey)]

\* groupSignals.flatMap(s => s.commits)
RECURSIVE FlatCommits(_)
FlatCommits(group) ==
  IF group = <<>> THEN <<>> ELSE Head(group).commits \o FlatCommits(Tail(group))

\* [...new Set(allCommits)]: the first occurrences, in order
Unique(seq) ==
  LET IsFirst(i) == \A j \in 1..(i - 1) : seq[j] # seq[i]
      firsts == SelectSeq([i \in 1..Len(seq) |-> i], IsFirst)
  IN  [k \in 1..Len(firsts) |-> seq[firsts[k]]]

HighestSeverity_OfFirst(group) == group[1].severity

HighestSeverity(group) ==
  IF \E i \in 1..Len(group) : group[i].severity = "high" THEN "high"
  ELSE IF \E i \in 1..Len(group) : group[i].severity = "medium" THEN "medium"
  ELSE "low"

MergedFile_Dropped(group) == Null

\* file: first.file
MergedFile(group) == group[1].file

MergeGroup(group) ==
  IF Len(group) = 1 THEN group[1]
  ELSE LET first == group[1]
           uniqueCommits == Unique(FlatCommits(group))
       IN  [type |-> first.type, file |-> MergedFile(group), date |-> first.date,
            commits |-> SubSeq(uniqueCommits, 1, Min(10, Len(uniqueCommits))),
            severity |-> HighestSeverity(group),
            description |->
              IF Len(group) > 1
                THEN [first.description EXCEPT
                        !.related = Append(first.description.related, Len(group))]
                ELSE first.description]

MergeSignals(signals) ==
  LET groups == Groups(signals)
  IN  [g \in 1..Len(groups) |-> MergeGroup(groups[g])]

(***************************************************************************)
(* core/profile.ts : ProfileManager.  A manager is the profile it holds in *)
(* memory (this.profile, which load() returns and the operations change in *)
(* place) and the content of the profile file.                             *)
(***************************************************************************)
\* createDefaultProfile(): the lists of the default profile
DefaultProfile == [strengths |-> <<>>, weaknesses |-> <<>>, active_projects |-> <<>>]

\* initialize() when no file exists: the default profile, saved
Initialize == [profile |-> DefaultProfile, file |-> DefaultProfile, threw |-> FALSE]

ArrayIncludes_Last(array, value) == array # <<>> /\ array[Len(array)] = value

\* Array.prototype.includes
ArrayIncludes(array, value) == \E i \in 1..Len(array) : array[i] = value

\* save(profile): writeFileSync writes the file, or throws
Save(manager, profile, written) ==
  [profile |-> profile,
   file |-> IF written THEN profile ELSE manager.file,
   threw |-> ~written]

\* an operation that finds nothing to do: the profile is not saved
Unsaved(manager) == [manager EXCEPT !.threw = FALSE]

AddStrength(manager, strength, written) ==
  IF ~ArrayIncludes(manager.profile.strengths, strength)
    THEN Save(manager,
              [manager.profile EXCEPT !.strengths = Append(@, strength)], written)
    ELSE Unsaved(manager)

AddWeakness(manager, weakness, written) ==
  IF ~ArrayIncludes(manager.profile.weaknesses, weakness)
    THEN Save(manager,
              [manager.profile EXCEPT !.weaknesses = Append(@, weakness)], written)
    ELSE Unsaved(manager)

\* active_projects.some((p) => p.path === path)
HasProject(projects, path) == \E i \in 1..Len(projects) : projects[i].path = path

AddProject(manager, path, role, written) ==
  IF ~HasProject(manager.profile.active_projects, path)
    THEN Save(manager,
              [manager.profile EXCEPT
                 !.active_projects = Append(@, [path |-> path, role |-> role])],
              written)
    ELSE Unsaved(manager)

RemoveProject(manager, path, written) ==
  LET OtherPath(p) == p.path # path
  IN  Save(manager,
           [manager.profile EXCEPT !.active_projects = SelectSeq(@, OtherPath)],
           written)

(***************************************************************************)
(* integrations/claude-mem.ts : availability and the daily observations.   *)
(* env.api, env.db: whether the HTTP API and the database respond;         *)
(* env.apiFails: the HTTP request fails although the API was reported up;  *)
(* env.observations: the observations the service holds for the day.       *)
(***************************************************************************)
\* isAvailable().mode
AvailabilityMode(env) ==
  IF env.api /\ env.db THEN "full"
  ELSE IF env.api THEN "api-only"
  ELSE IF env.db THEN "db-only"
  ELSE "unavailable"

\* getDailyObservations(date) = getDailyReview(date).observations
GetDailyObservations(env) ==
  IF env.api
    THEN IF ~env.apiFails
           THEN [threw |-> FALSE, observations |-> env.observations]
           ELSE IF env.db      \* getDailyReviewViaApi: catch, fall back to SQLite
             THEN [threw |-> FALSE, observations |-> env.observations]
             ELSE [threw |-> TRUE, observations |-> <<>>]
  ELSE IF env.db
    THEN [threw |-> FALSE, observations |-> env.observations]
    ELSE [threw |-> FALSE, observations |-> <<>>]

\* the database query of getObservations: openDb() leaves this.db unset
\* when the database cannot be opened, and prepare().all() may throw
QueryDb(env) ==
  IF env.dbState = "unopened" THEN [threw |-> FALSE, observations |-> <<>>]
  ELSE IF env.dbState = "query fails" THEN [threw |-> TRUE, observations |-> <<>>]
  ELSE [threw |-> FALSE, observations |-> env.observations]

\* getObservations(options): the API when it was reported up; when it was
\* not, or the request fails, the database when its file exists; else []
GetObservations(env) ==
  IF env.api /\ ~env.apiFails
    THEN [threw |-> FALSE, observations |-> env.observations]
  ELSE IF env.db THEN QueryDb(env)
  ELSE [threw |-> FALSE, observations |-> <<>>]

(***************************************************************************)
(* core/aggregator.ts : DataAggregator.aggregateProject, as a whole.  A    *)
(* repository is its basename (lowercased, as characters), whether it has  *)
(* a .git entry, and the commits getCommits returns for it.                *)
(***************************************************************************)
\* the commits pushed to allCommits, in the order of the repository list
RECURSIVE ProjectCommits(_)
ProjectCommits(repos) ==
  IF repos = <<>> THEN <<>>
  ELSE (IF Head(repos).isGitRepo THEN Head(repos).commits ELSE <<>>)
         \o ProjectCommits(Tail(repos))

\* string order of the days in use
DayRank == ("2026-02-03" :> 1 @@ "2026-02-04" :> 2)

\* options.limit of aggregateProject (1000 in the code)
HistoryLimit == 3

\* the options aggregateProject passes to getCommits
ReadOptions(since) ==
  [since |-> IF since # Null THEN Some(since[1] \o " 00:00:00") ELSE Null,
   limit |-> Some(HistoryLimit)]

\* the days --since="<day> 00:00:00" admits, by the day of the commit
SinceRank == ("2026-02-03 00:00:00" :> 1 @@ "2026-02-04 00:00:00" :> 2)

\* git log with the arguments of buildGitLogArgs, on a history listed
\* newest first: --since keeps the commits from that instant on, and -n
\* stops the listing after limit commits
GitLog(history, options) ==
  LET Admitted(c) ==
        options.since = Null \/ DayRank[SplitT0(c.timestamp)] >= SinceRank[options.since[1]]
      listed == SelectSeq(history, Admitted)
  IN  IF options.limit # Null /\ options.limit[1] # 0
        THEN SubSeq(listed, 1, Min(options.limit[1], Len(listed)))
        ELSE listed

\* earliestDate and latestDate after the commit loop (null without commits)
RECURSIVE DateRange(_, _, _)
DateRange(commits, earliestDate, latestDate) ==
  IF commits = <<>> THEN [earliest |-> earliestDate, latest |-> latestDate]
  ELSE LET commitDate == SplitT0(Head(commits).timestamp)
       IN  DateRange(Tail(commits),
                     IF earliestDate = Null \/ DayRank[commitDate] < DayRank[earliestDate[1]]
                       THEN Some(commitDate) ELSE earliestDate,
                     IF latestDate = Null \/ DayRank[commitDate] > DayRank[latestDate[1]]
                       THEN Some(commitDate) ELSE latestDate)

\* earliestDate || 'unknown'
OrUnknown(date) == IF date = Null THEN "unknown" ELSE date[1]

\* the paths touched, one per commit and file, in the order of the loop
RECURSIVE PathsTouched(_)
PathsTouched(commits) ==
  IF commits = <<>> THEN <<>>
  ELSE [f \in 1..Len(Head(commits).files) |-> Head(commits).files[f].path]
         \o PathsTouched(Tail(commits))

\* Object.entries(fileChangeCounts).sort((a, b) => b[1] - a[1]).slice(0, 10)
CoreFiles(commits) ==
  LET touched == PathsTouched(commits)
      keys == Unique(touched)
      Count(path) == Cardinality({i \in 1..Len(touched) : touched[i] = path})
      sorted == Items(ArraySort([k \in 1..Len(keys) |->
                                   [key |-> Num(0 - Count(keys[k])), item |-> keys[k]]]))
  IN  SubSeq(sorted, 1, Min(10, Len(sorted)))

\* Array.from(allContributors)
Contributors(commits) == Unique([i \in 1..Len(commits) |-> commits[i].author])

\* repoNames.some(name => project.includes(name) || name.includes(project))
IsRelated(obs, repos) ==
  LET project == ToLowerCase(obs.project)
  IN  \E r \in 1..Len(repos) :
        Includes(project, repos[r].base) \/ Includes(repos[r].base, project)

\* detectFromObservations
RECURSIVE DetectFromObservations(_)
DetectFromObservations(observations) ==
  IF observations = <<>> THEN <<>>
  ELSE LET obs == Head(observations)
           Signal(severity, template) ==
             [type |-> "bugfix_observation", file |-> Null, date |-> SplitT0(obs.created_at),
              commits |-> <<>>, severity |-> severity,
              description |-> Describe(template, <<>>, <<obs.title>>, <<>>)]
       IN  (IF obs.type = "bugfix" THEN <<Signal("medium", "${}")>> ELSE <<>>)
           \o (IF obs.hasPitfallKeyword /\ obs.type # "bugfix"
                 THEN <<Signal("low", "Issue record: ${}")>> ELSE <<>>)
           \o DetectFromObservations(Tail(observations))

Unavailable_Rethrown(error) == [threw |-> TRUE, observations |-> <<>>]

\* catch (error) of aggregateProject: logged, observations stays []
Unavailable(error) == [threw |-> FALSE, observations |-> <<>>]

\* aggregateProject(repos) with the observation service in state env
AggregateProjectData(repos, env) ==
  LET read == ProjectCommits(repos)
      allCommits == SortByTime(read)
      range == DateRange(read, Null, Null)
      sampledCommits == IF Len(allCommits) > SampleThreshold
                          THEN SampleCommits(allCommits, SampleThreshold)
                          ELSE allCommits
      allObs == GetObservations(env)
      fetched == IF allObs.threw THEN Unavailable(allObs)
                 ELSE [threw |-> FALSE,
                       observations |->
                         SelectSeq(allObs.observations, LAMBDA obs : IsRelated(obs, repos))]
      observations == fetched.observations
  IN  [threw |-> fetched.threw,
       commits |-> sampledCommits,
       observations |-> observations,
       pitfalls |-> DetectFromCommits(allCommits) \o DetectFromObservations(observations),
       stats |-> [total_commits |-> Len(allCommits),
                  total_observations |-> Len(observations),
                  time_span |-> [start |-> OrUnknown(range.earliest),
                                 end |-> OrUnknown(range.latest)],
                  contributors |-> Contributors(read),
                  core_files |-> CoreFiles(read)]]

(***************************************************************************)
(* core/reflection.ts : QuestionGenerator, ReflectionEngine                *)
(***************************************************************************)
Categories == <<"technical", "decision", "efficiency">>

QuestionCount_Exclusive(eventCount) ==
  IF eventCount < 5 THEN 3 ELSE IF eventCount < 15 THEN 5 ELSE 8

\* question count as a step function of the event count
QuestionCount(eventCount) ==
  IF eventCount < 5 THEN 3 ELSE IF eventCount <= 15 THEN 5 ELSE 8

\* generateQuestion(category, topics, index); every template has a follow-up
GenerateQuestion(category, index) ==
  [id |-> "q-" \o category \o "-" \o ToString(index),
   category |-> category,
   question |-> category \o "#" \o ToString(index % 4),
   follow_up |-> category \o "#" \o ToString(index % 4) \o "?"]

\* while (questions.length < questionCount): the next question has the
\* category categories[questions.length % 3]
RECURSIVE FillQuestions(_, _)
FillQuestions(questions, questionCount) ==
  IF ~(Len(questions) < questionCount) THEN questions
  ELSE FillQuestions(
         Append(questions,
                GenerateQuestion(Categories[(Len(questions) % 3) + 1], Len(questions))),
         questionCount)

\* generateQuestions(timeline, profile): one question of each category,
\* then the loop
GenerateQuestions(events) ==
  FillQuestions(<<GenerateQuestion("technical", 0), GenerateQuestion("decision", 1),
                  GenerateQuestion("efficiency", 2)>>,
                QuestionCount(Len(events)))

\* ReflectionEngine.startSession: a started state machine over the questions
StartSession(events) == StartDialog(NewContext(GenerateQuestions(events)))

MinLearningLength == 10

TooShort_Untrimmed(answer) == Length(answer) < MinLearningLength

\* answer.trim().length < 10
TooShort(answer) == Length(Trim(answer)) < MinLearningLength

NeedsShortening_Inclusive(trimmed) == Length(trimmed) >= 200

\* trimmed.length > 200
NeedsShortening(trimmed) == Length(trimmed) > 200

\* extractContent(answer): null, or the content.  A content is the first
\* `prefix` characters of the trimmed answer, followed by "..." or not:
\* the whole trimmed answer, its first sentence, or its first 200
\* characters and "..."
ExtractContent(answer) ==
  LET trimmed == Trim(answer)
  IN  IF TooShort(answer) THEN Null
      ELSE IF NeedsShortening(trimmed)
        THEN IF trimmed.sentence > 0
               THEN Some([prefix |-> trimmed.sentence, ellipsis |-> FALSE])
               ELSE Some([prefix |-> 200, ellipsis |-> TRUE])
        ELSE Some([prefix |-> Length(trimmed), ellipsis |-> FALSE])

\* /learned|understand|mastered|discovered|realized/i.test(answer)
HasKeyword(answer) == answer.keyword

IsLong_Inclusive(length) == length >= 100

\* length > 100
IsLong(length) == length > 100

\* determineConfidence(answer)
DetermineConfidence(answer) ==
  LET length == Length(Trim(answer))
  IN  IF IsLong(length)
        THEN IF HasKeyword(answer) THEN "high" ELSE "medium"
        ELSE IF length > 50 THEN "medium" ELSE "low"

\* analyzeAnswer(question, answer, timeline): null, or the learning
AnalyzeAnswer(question, answer) ==
  LET content == ExtractContent(answer)
  IN  IF content = Null \/ content[1].prefix = 0 THEN Null
      ELSE Some([category |-> question.category, question |-> question.id,
                 content |-> content[1],
                 confidence |-> DetermineConfidence(answer)])

\* LearningExtractor.extractLearnings: the learnings of the questions
\* whose answer, trimmed, has at least 10 characters
RECURSIVE ExtractLearnings(_, _)
ExtractLearnings(questions, answers) ==
  IF questions = <<>> THEN <<>>
  ELSE LET q == Head(questions)
           skip == \/ q.id \notin DOMAIN answers
                   \/ Length(answers[q.id]) = 0
                   \/ TooShort(answers[q.id])
       IN  (IF skip THEN <<>> ELSE AnalyzeAnswer(q, answers[q.id]))
             \o ExtractLearnings(Tail(questions), answers)

(***************************************************************************)
(* utils/paths.ts, core/report.ts : dates and report files                 *)
(***************************************************************************)
ValidDates == {"2026-02-03"}

\* parseDate(dateStr) throws unless new Date(dateStr) is a date
ParseDateThrows(date) == date \notin ValidDates

\* reportExists(date)
ReportExists(fs, date) == date \in DOMAIN fs.reports

SetFile(dir, name, content) ==
  [k \in (DOMAIN dir) \cup {name} |-> IF k = name THEN content ELSE dir[k]]

\* backupReport(date): copy the report to the backup directory
BackupReport(fs, date) ==
  IF ReportExists(fs, date)
    THEN [fs EXCEPT !.backups = SetFile(@, date, fs.reports[date])]
    ELSE fs

\* saveReport(report): writeFileSync replaces the file.  A file's content is
\* the sequence of reports written into it.
SaveReport(fs, report) ==
  [fs EXCEPT !.reports = SetFile(@, report.date, <<report>>)]

(***************************************************************************)
(* core/aggregator.ts : DataAggregator instances and close()               *)
(***************************************************************************)
\* new DataAggregator(...): the instance gets the next id and is open
NewAggregator(aggs) ==
  [created |-> aggs.created + 1, open |-> aggs.open \cup {aggs.created + 1}]

\* aggregator.close()
Close(aggs, id) == [aggs EXCEPT !.open = @ \ {id}]

(***************************************************************************)
(* commands/daily-reflect.ts : the step-based API.  Every operation is an  *)
(* operator from the state it reads to the state it leaves and the result  *)
(* it returns.                                                             *)
(***************************************************************************)
NoActiveSession_Throws == [success |-> FALSE, threw |-> TRUE]

\* if (!currentSession) return { success: false, ... }
NoActiveSession == [success |-> FALSE, threw |-> FALSE]

Ok == [success |-> TRUE, threw |-> FALSE]

Failed == [success |-> FALSE, threw |-> FALSE]

\* "Clean up previous session": close its aggregator
CleanUpPrevious(session, aggs) ==
  IF session # Null THEN Close(aggs, session[1].aggregator) ELSE aggs

InitFailed_Leak(aggs, id) == aggs

\* a failing return of initReflection / initProjectReflection after the
\* aggregator was created: aggregator.close() comes first
InitFailed(aggs, id) == Close(aggs, id)

\* initReflection(date, options)
InitReflection(session, aggs, fs, date, options, env) ==
  LET cleaned == CleanUpPrevious(session, aggs)
      id == cleaned.created + 1
      made == NewAggregator(cleaned)
      fetched == GetDailyObservations(env)
      events == GetDailyTimelineEvents(fetched.observations, env.repos)
      exists == ReportExists(fs, date)
      started == StartSession(events)
      failed == [session |-> Null, aggregators |-> InitFailed(made, id),
                 files |-> fs, result |-> Failed]
  IN  IF ParseDateThrows(date)
        THEN [session |-> Null, aggregators |-> cleaned, files |-> fs, result |-> Failed]
      ELSE IF AvailabilityMode(env) = "unavailable" THEN failed
      ELSE IF fetched.threw THEN failed
      ELSE IF Len(events) = 0 THEN failed
      ELSE IF exists /\ ~options.overwrite /\ ~options.append THEN failed
      ELSE IF started.question = Null
        THEN [failed EXCEPT !.files =
                IF exists /\ options.overwrite THEN BackupReport(fs, date) ELSE fs]
      ELSE [session |-> Some([date |-> date,
                              events |-> events,
                              engine |-> started.ctx,
                              aggregator |-> id,
                              options |-> options]),
            aggregators |-> made,
            files |-> IF exists /\ options.overwrite THEN BackupReport(fs, date) ELSE fs,
            result |-> Ok]

\* dailyReflect(options): the same checks without a session; the aggregator
\* is closed in the finally block
DailyReflect(aggs, fs, date, options, env) ==
  LET id == aggs.created + 1
      made == NewAggregator(aggs)
      fetched == GetDailyObservations(env)
      events == GetDailyTimelineEvents(fetched.observations, env.repos)
      exists == ReportExists(fs, date)
      failed == [aggregators |-> Close(made, id), files |-> fs, result |-> Failed]
  IN  IF ParseDateThrows(date)
        THEN [aggregators |-> aggs, files |-> fs, result |-> Failed]
      ELSE IF AvailabilityMode(env) = "unavailable" THEN failed
      ELSE IF fetched.threw THEN failed
      ELSE IF Len(events) = 0 THEN failed
      ELSE IF exists /\ ~options.overwrite /\ ~options.append THEN failed
      ELSE [aggregators |-> Close(made, id),
            files |-> IF exists /\ options.overwrite THEN BackupReport(fs, date) ELSE fs,
            result |-> Ok]

\* getCurrentQuestion()
GetCurrentQuestionApi(session) ==
  IF session = Null THEN NoActiveSession @@ [isComplete |-> FALSE, question |-> Null]
  ELSE IF IsComplete(session[1].engine)
    THEN Ok @@ [isComplete |-> TRUE, question |-> Null]
    ELSE Ok @@ [isComplete |-> FALSE,
                question |-> Some(session[1].engine.questions[
                                    GetProgress(session[1].engine).current])]

\* submitAnswer(questionId, answer); the question id is not read
SubmitAnswer(session, answer) ==
  IF session = Null
    THEN [session |-> session, result |-> NoActiveSession @@ [action |-> "complete"]]
  ELSE IF IsComplete(session[1].engine)
    THEN [session |-> session, result |-> Ok @@ [action |-> "complete"]]
  ELSE LET r == ProcessAnswer(session[1].engine, answer)
       IN  [session |-> Some([session[1] EXCEPT !.engine = r.ctx]),
            result |-> Ok @@ [action |-> r.action]]

CompleteReflection_WhenComplete(session, aggs, fs, now, ioFails) ==
  IF session = Null
    THEN [session |-> session, aggregators |-> aggs, files |-> fs,
          result |-> NoActiveSession]
  ELSE IF ioFails \/ ~IsComplete(session[1].engine)
    THEN [session |-> session, aggregators |-> aggs, files |-> fs, result |-> Failed]
  ELSE LET s == session[1]
           report == [date |-> s.date,
                      generated_at |-> now,
                      learnings |-> ExtractLearnings(s.engine.questions, s.engine.answers)]
       IN  [session |-> Null,
            aggregators |-> Close(aggs, s.aggregator),
            files |-> SaveReport(fs, report),
            result |-> Ok]

\* completeReflection(); ioFails: writing the report file throws
CompleteReflection(session, aggs, fs, now, ioFails) ==
  IF session = Null
    THEN [session |-> session, aggregators |-> aggs, files |-> fs,
          result |-> NoActiveSession]
  ELSE IF ioFails
    THEN [session |-> session, aggregators |-> aggs, files |-> fs, result |-> Failed]
  ELSE LET s == session[1]
           report == [date |-> s.date,
                      generated_at |-> now,
                      learnings |-> ExtractLearnings(s.engine.questions, s.engine.answers)]
       IN  [session |-> Null,
            aggregators |-> Close(aggs, s.aggregator),
            files |-> SaveReport(fs, report),
            result |-> Ok]

\* cancelReflection()
CancelReflection(session, aggs) ==
  IF session = Null
    THEN [session |-> session, aggregators |-> aggs, result |-> NoActiveSession]
    ELSE [session |-> Null, aggregators |-> Close(aggs, session[1].aggregator),
          result |-> Ok]

\* getSessionStatus()
GetSessionStatus(session) ==
  IF session = Null THEN [active |-> FALSE]
  ELSE [active |-> TRUE,
        date |-> session[1].date,
        progress |-> GetProgress(session[1].engine),
        isComplete |-> IsComplete(session[1].engine)]

(***************************************************************************)
(* commands/project-reflect.ts : the project step-based API                *)
(***************************************************************************)
ProjectFollowUpMinLength == 30

ProjectLearningMinLength == 20

\* existsSync(join(repoPath, '.git'))
GitRepos == {"/work/app"}

\* basename(path)
Basename == ("/work/app" :> "app" @@ "/nonexistent" :> "nonexistent")

\* validateRepos(repoPaths).valid
ValidRepos(repos) == SelectSeq(repos, LAMBDA r : r \in GitRepos)

\* getProjectName(repos)
RECURSIVE JoinNames(_)
JoinNames(repos) ==
  IF Len(repos) = 1 THEN Basename[repos[1]]
  ELSE Basename[repos[1]] \o "_" \o JoinNames(Tail(repos))

\* generateProjectQuestions(data)
GenerateProjectQuestions(data) ==
  LET pq(n, category) == [id |-> "pq-" \o ToString(n), category |-> category]
      decision == <<pq(1, "decision")>>
      withFile == SelectSeq(SubSeq(data.pitfalls, 1, Min(2, Len(data.pitfalls))),
                            LAMBDA p : Truthy(p.file))
      pitfall == IF Len(data.pitfalls) > 0
                   THEN <<pq(2, "pitfall")>>
                          \o [i \in 1..Len(withFile) |-> pq(2 + i, "pitfall")]
                   ELSE <<pq(2, "pitfall")>>
      learning == <<pq(Len(pitfall) + 2, "learning")>>
      bugfix == IF SelectSeq(data.observations, LAMBDA o : o.type = "bugfix") # <<>>
                  THEN <<pq(Len(pitfall) + 3, "pitfall")>>
                  ELSE <<>>
  IN  decision \o pitfall \o learning \o bugfix

FollowUpCategories == {"decision", "pitfall", "learning"}

\* initProjectReflection(repos, options); agg: what aggregateProject does
\* for the valid repositories (it throws, or returns the project data)
InitProjectReflection(session, aggs, repos, agg) ==
  LET cleaned == CleanUpPrevious(session, aggs)
      valid == ValidRepos(repos)
      id == cleaned.created + 1
      made == NewAggregator(cleaned)
      questions == GenerateProjectQuestions(agg.data)
      failed == [session |-> Null, aggregators |-> InitFailed(made, id),
                 result |-> Failed]
  IN  IF Len(valid) = 0
        THEN [session |-> Null, aggregators |-> cleaned, result |-> Failed]
      ELSE IF agg.threw THEN failed
      ELSE IF agg.data.commits = 0 /\ Len(agg.data.observations) = 0 THEN failed
      ELSE IF Len(questions) = 0 THEN failed
      ELSE [session |-> Some([repos |-> valid,
                              data |-> agg.data,
                              questions |-> questions,
                              answers |-> <<>>,
                              aggregator |-> id,
                              currentQuestionIndex |-> 0]),
            aggregators |-> made,
            result |-> Ok]

\* getCurrentProjectQuestion()
GetCurrentProjectQuestion(session) ==
  IF session = Null THEN NoActiveSession @@ [isComplete |-> FALSE, question |-> Null]
  ELSE IF session[1].currentQuestionIndex >= Len(session[1].questions)
    THEN Ok @@ [isComplete |-> TRUE, question |-> Null]
    ELSE Ok @@ [isComplete |-> FALSE,
                question |-> Some(session[1].questions[
                                    session[1].currentQuestionIndex + 1])]

\* submitProjectAnswer(questionId, answer).  The answer is recorded under
\* the id the caller passes.  A short answer asks for a follow-up of the
\* question at the current index; past the last question there is none and
\* reading its category throws.
SubmitProjectAnswer(session, questionId, answer) ==
  IF session = Null
    THEN [session |-> session, result |-> NoActiveSession @@ [action |-> "complete"]]
  ELSE LET s == session[1]
           total == Len(s.questions)
           recorded == [s EXCEPT !.answers = PutAnswer(@, questionId, answer)]
           moved == [recorded EXCEPT !.currentQuestionIndex = @ + 1]
       IN  IF Length(answer) < ProjectFollowUpMinLength
                /\ s.currentQuestionIndex >= total
             THEN [session |-> Some(recorded),
                   result |-> [success |-> FALSE, threw |-> TRUE, action |-> "none"]]
           ELSE IF Length(answer) < ProjectFollowUpMinLength
                /\ s.questions[s.currentQuestionIndex + 1].category \in FollowUpCategories
             THEN [session |-> Some(recorded),
                   result |-> Ok @@ [action |-> "follow_up"]]
           ELSE IF moved.currentQuestionIndex >= total
             THEN [session |-> Some(moved), result |-> Ok @@ [action |-> "complete"]]
             ELSE [session |-> Some(moved), result |-> Ok @@ [action |-> "next"]]

\* extractProjectLearnings(session): the answered question ids whose answer
\* has at least 20 characters
ExtractProjectLearnings(s) ==
  {k \in DOMAIN s.answers :
     /\ \E i \in 1..Len(s.questions) : s.questions[i].id = k
     /\ Length(s.answers[k]) >= ProjectLearningMinLength}

\* saveProjectReport(report): back up an existing file, then replace it
SaveProjectReport(fs, report) ==
  LET name == report.project_name
      backedUp == IF name \in DOMAIN fs.projectReports
                    THEN [fs EXCEPT !.backups =
                            SetFile(@, "project-" \o name, fs.projectReports[name])]
                    ELSE fs
  IN  [backedUp EXCEPT !.projectReports = SetFile(@, name, <<report>>)]

\* completeProjectReflection()
CompleteProjectReflection(session, aggs, fs, now, ioFails) ==
  IF session = Null
    THEN [session |-> session, aggregators |-> aggs, files |-> fs,
          result |-> NoActiveSession]
  ELSE IF ioFails
    THEN [session |-> session, aggregators |-> aggs, files |-> fs, result |-> Failed]
  ELSE LET s == session[1]
           report == [project_name |-> JoinNames(s.repos),
                      generated_at |-> now,
                      learnings |-> ExtractProjectLearnings(s)]
       IN  [session |-> Null,
            aggregators |-> Close(aggs, s.aggregator),
            files |-> SaveProjectReport(fs, report),
            result |-> Ok]

\* cancelProjectReflection()
CancelProjectReflection(session, aggs) == CancelReflection(session, aggs)

\* getProjectSessionStatus()
GetProjectSessionStatus(session) ==
  IF session = Null THEN [active |-> FALSE]
  ELSE [active |-> TRUE,
        repos |-> session[1].repos,
        progress |-> [current |-> session[1].currentQuestionIndex + 1,
                      total |-> Len(session[1].questions)],
        isComplete |-> session[1].currentQuestionIndex >= Len(session[1].questions)]

(***************************************************************************)
(* Idle values of the parts a specification does not exercise.             *)
(***************************************************************************)
IdleDialog ==
  /\ context = NewContext(<<>>)
  /\ lastResult = [op |-> "none"]
  /\ hist = [submits |-> 0]

IdleApi ==
  /\ currentSession = Null
  /\ currentProjectSession = Null
  /\ aggregators = [created |-> 0, open |-> {}]
  /\ files = [reports |-> <<>>, backups |-> <<>>, projectReports |-> <<>>]
  /\ clock = 0
  /\ lastCall = [op |-> "none"]

IdleTimeline == tl = [pc |-> "idle"]

IdleFn == fn = [pc |-> "idle"]

(***************************************************************************)
(* DialogSpec: a DialogStateMachine over any list of questions, driven by  *)
(* start() and processAnswer() calls in any order.                         *)
(***************************************************************************)
DialogInit ==
  /\ \E questions \in QuestionLists : context = NewContext(questions)
  /\ lastResult = [op |-> "none"]
  /\ hist = [submits |-> 0,          \* processAnswer calls so far
             startedFirst |-> FALSE, \* start() came before every answer
             allLong |-> TRUE,       \* every answer so far had >= 20 chars trimmed
             nexts |-> 0,            \* results with action next
             followUps |-> 0,        \* results with action follow_up
             completes |-> 0,        \* results with action complete
             answersForCurrent |-> 0,    \* answers to the current question
             followUpsForCurrent |-> 0]  \* follow-ups of the current question
  /\ IdleApi
  /\ IdleTimeline
  /\ IdleFn

Start ==
  LET r == StartDialog(context)
  IN  /\ context' = r.ctx
      /\ lastResult' = [op |-> "start", question |-> r.question]
      /\ hist' = [hist EXCEPT !.startedFirst = (@ \/ hist.submits = 0)]
      /\ UNCHANGED <<apiVars, tl, fn>>

Count(b) == IF b THEN 1 ELSE 0

Submit ==
  /\ hist.submits < MaxSubmits
  /\ \E answer \in AnswerPool :
       LET r == ProcessAnswer(context, answer)
           moved == r.ctx.currentQuestionIndex # context.currentQuestionIndex
       IN  /\ context' = r.ctx
           /\ lastResult' = [op |-> "processAnswer",
                             answer |-> answer,
                             action |-> r.action,
                             question |-> r.question,
                             prevIndex |-> context.currentQuestionIndex,
                             prevFollowUps |-> hist.followUpsForCurrent]
           /\ hist' = [hist EXCEPT
                 !.submits = @ + 1,
                 !.allLong = (@ /\ Trim(answer).text >= 20),
                 !.nexts = @ + Count(r.action = "next"),
                 !.followUps = @ + Count(r.action = "follow_up"),
                 !.completes = @ + Count(r.action = "complete"),
                 !.answersForCurrent = IF moved THEN 0 ELSE @ + 1,
                 !.followUpsForCurrent =
                    IF moved THEN 0 ELSE @ + Count(r.action = "follow_up")]
  /\ UNCHANGED <<apiVars, tl, fn>>

DialogNext == Start \/ Submit

DialogSpec == DialogInit /\ [][DialogNext]_vars

NumQuestions == Len(context.questions)

IsSubmitStep == hist'.submits = hist.submits + 1

(***************************************************************************)
(* TimelineSpec: one getDailyTimeline(date) call over any observations the *)
(* client returns and any commits the repositories' logs hold for the day. *)
(***************************************************************************)
ObsEpochs == {5, 7}

ObservationLists ==
  UNION {{[i \in 1..n |-> [id |-> i, created_at_epoch |-> e[i], title |-> "note"]] :
            e \in [1..n -> ObsEpochs]} : n \in 0..MaxObservations}

\* subjects: a plain one, and one that contains a "|"
Subjects == {<<"fix: parser">>, <<"feat: a", "b">>}

FullHash(i) == [head |-> "c" \o ToString(i), tail |-> "0"]

\* the commits git lists for the day, newest first, hashes distinct
CommitLists ==
  UNION {{[i \in 1..n |-> [hash |-> FullHash(i),
                           subject |-> k[i].subject,
                           author |-> "ann",
                           email |-> "ann@example.com",
                           date |-> k[i].date]] :
            k \in [1..n -> [subject : Subjects, date : DailyDates]]} :
         n \in 0..MaxCommits}

\* the first `cut` commits are repoA's log, the others repoB's
RepoStates ==
  {[p \in {"repoA", "repoB"} |->
      [isGitRepo |-> g[p],
       log |-> IF p = "repoA" THEN SubSeq(c, 1, cut)
                              ELSE SubSeq(c, cut + 1, Len(c))]] :
     <<c, cut, g>> \in {x \in CommitLists \X (0..MaxCommits) \X [{"repoA", "repoB"} -> BOOLEAN] :
                          x[2] <= Len(x[1])}}

TimelineInit ==
  /\ \E observations \in ObservationLists, repos \in RepoStates :
       tl = [pc |-> "ready", observations |-> observations, repos |-> repos,
             events |-> <<>>]
  /\ IdleDialog
  /\ IdleApi
  /\ IdleFn

GetDailyTimeline ==
  /\ tl.pc = "ready"
  /\ tl' = [tl EXCEPT !.pc = "done",
                      !.events = GetDailyTimelineEvents(tl.observations, tl.repos)]
  /\ UNCHANGED <<dialogVars, apiVars, fn>>

TimelineNext == GetDailyTimeline

TimelineSpec == TimelineInit /\ [][TimelineNext]_vars

\* the concatenation observations-then-commits the events were sorted from
TimelineConcat == ConcatEvents(tl.observations, GetGitCommits(tl.repos))

\* the position of the event with this id in the returned timeline
PositionOf(id) == CHOOSE i \in 1..Len(tl.events) : tl.events[i].id = id

(***************************************************************************)
(* Spec: the step-based APIs of daily-reflect.ts and project-reflect.ts,   *)
(* called one after another in any order on the two module-level sessions. *)
(* lastCall records the last call: its inputs, whether a session was       *)
(* active when it was made, and what it returned.                          *)
(***************************************************************************)
MaxAggregators == 2

MaxReports == 1

MaxOverrun == 1

DailyOptions ==
  {[overwrite |-> FALSE, append |-> FALSE],
   [overwrite |-> TRUE, append |-> FALSE],
   [overwrite |-> FALSE, append |-> TRUE]}

DailyAnswers ==
  {[spaces |-> 0, text |-> 19, keyword |-> FALSE, sentence |-> 0],
   [spaces |-> 0, text |-> 20, keyword |-> FALSE, sentence |-> 0]}

\* the commits of the day in the profile's repositories: none, or one
DailyRepoStates ==
  {[p \in {"repoA", "repoB"} |->
      [isGitRepo |-> p = "repoA",
       log |-> IF p = "repoA" THEN log ELSE <<>>]] :
   log \in {<<>>, <<[hash |-> FullHash(1),
                     subject |-> <<"fix: parser">>,
                     author |-> "ann",
                     email |-> "ann@example.com",
                     date |-> "2026-02-03T06:00:00+00:00"]>>}}

\* the environment of a daily call: the transports, and what the day left
\* behind: nothing, an observation, or a commit (apiFails matters when the
\* API answered the availability probe and there is no database to fall
\* back to)
DailyEnvs ==
  {e \in [api : BOOLEAN, db : BOOLEAN, apiFails : BOOLEAN,
          observations : {<<>>, <<[id |-> 1, created_at_epoch |-> 5, title |-> "note"]>>},
          repos : DailyRepoStates] :
     /\ e.apiFails => (e.api /\ ~e.db)
     /\ e.observations = <<>> \/ GetGitCommits(e.repos) = <<>>}

\* a call of initReflection or dailyReflect: the date, the options and the
\* environment it runs in (which a call with an invalid date never reads)
DailyCalls ==
  {[date |-> "2026-02-03", options |-> o, env |-> e] :
     o \in DailyOptions, e \in DailyEnvs}
  \cup {[date |-> "invalid-date",
         options |-> [overwrite |-> FALSE, append |-> FALSE],
         env |-> CHOOSE e \in DailyEnvs : e.api /\ e.db /\ e.observations # <<>>]}

RepoLists == {<<>>, <<"/nonexistent">>, <<"/work/app">>, <<"/nonexistent", "/work/app">>}

ProjectAnswers ==
  {[spaces |-> 0, text |-> 19, keyword |-> FALSE, sentence |-> 0],
   [spaces |-> 0, text |-> 29, keyword |-> FALSE, sentence |-> 0],
   [spaces |-> 11, text |-> 19, keyword |-> FALSE, sentence |-> 0]}

ProjectQuestionIds == {"pq-1"}

\* what aggregateProject does: it throws, finds nothing, or returns data
Aggregations ==
  {[threw |-> TRUE, data |-> [commits |-> 0, observations |-> <<>>, pitfalls |-> <<>>]],
   [threw |-> FALSE, data |-> [commits |-> 0, observations |-> <<>>, pitfalls |-> <<>>]],
   [threw |-> FALSE, data |-> [commits |-> 1, observations |-> <<>>, pitfalls |-> <<>>]]}

\* a report an earlier run left in the report directory
OldReport == [date |-> "2026-02-03", generated_at |-> 0, learnings |-> <<>>]

Init ==
  /\ currentSession = Null
  /\ currentProjectSession = Null
  /\ aggregators = [created |-> 0, open |-> {}]
  /\ \E reports \in {<<>>, SetFile(<<>>, OldReport.date, <<OldReport>>)} :
       files = [reports |-> reports, backups |-> <<>>, projectReports |-> <<>>]
  /\ clock = 0
  /\ lastCall = [op |-> "none"]
  /\ IdleDialog
  /\ IdleTimeline
  /\ IdleFn

CallInitReflection ==
  \E call \in DailyCalls :
    LET date == call.date
        options == call.options
        env == call.env
        r == InitReflection(currentSession, aggregators, files, date, options, env)
    IN  /\ ParseDateThrows(date) \/ aggregators.created < MaxAggregators
        /\ currentSession' = r.session
        /\ aggregators' = r.aggregators
        /\ files' = r.files
        /\ lastCall' = [op |-> "initReflection",
                        hadSession |-> currentSession # Null,
                        date |-> date,
                        options |-> options,
                        api |-> env.api,
                        db |-> env.db,
                        commits |-> Len(GetGitCommits(env.repos)),
                        reportExisted |-> ReportExists(files, date),
                        success |-> r.result.success,
                        threw |-> r.result.threw]
        /\ UNCHANGED <<currentProjectSession, clock, dialogVars, tl, fn>>

CallDailyReflect ==
  \E call \in DailyCalls :
    LET date == call.date
        options == call.options
        env == call.env
        r == DailyReflect(aggregators, files, date, options, env)
    IN  /\ ParseDateThrows(date) \/ aggregators.created < MaxAggregators
        /\ aggregators' = r.aggregators
        /\ files' = r.files
        /\ lastCall' = [op |-> "dailyReflect",
                        hadSession |-> currentSession # Null,
                        date |-> date,
                        options |-> options,
                        api |-> env.api,
                        db |-> env.db,
                        commits |-> Len(GetGitCommits(env.repos)),
                        reportExisted |-> ReportExists(files, date),
                        success |-> r.result.success,
                        threw |-> r.result.threw]
        /\ UNCHANGED <<currentSession, currentProjectSession, clock, dialogVars, tl, fn>>

CallGetCurrentQuestion ==
  LET r == GetCurrentQuestionApi(currentSession)
  IN  /\ lastCall' = [op |-> "getCurrentQuestion",
                      hadSession |-> currentSession # Null,
                      success |-> r.success,
                      threw |-> r.threw,
                      isComplete |-> r.isComplete]
      /\ UNCHANGED <<currentSession, currentProjectSession, aggregators, files,
                     clock, dialogVars, tl, fn>>

CallSubmitAnswer ==
  \E answer \in DailyAnswers :
    LET r == SubmitAnswer(currentSession, answer)
    IN  /\ currentSession' = r.session
        /\ lastCall' = [op |-> "submitAnswer",
                        hadSession |-> currentSession # Null,
                        success |-> r.result.success,
                        threw |-> r.result.threw,
                        action |-> r.result.action]
        /\ UNCHANGED <<currentProjectSession, aggregators, files, clock, dialogVars, tl, fn>>

CallCompleteReflection ==
  \E ioFails \in BOOLEAN :
    LET r == CompleteReflection(currentSession, aggregators, files, clock + 1, ioFails)
    IN  /\ currentSession = Null \/ ioFails \/ clock < MaxReports
        /\ currentSession' = r.session
        /\ aggregators' = r.aggregators
        /\ files' = r.files
        /\ clock' = IF r.result.success THEN clock + 1 ELSE clock
        /\ lastCall' = [op |-> "completeReflection",
                        hadSession |-> currentSession # Null,
                        finished |-> /\ currentSession # Null
                                     /\ IsComplete(currentSession[1].engine),
                        success |-> r.result.success,
                        threw |-> r.result.threw]
        /\ UNCHANGED <<currentProjectSession, dialogVars, tl, fn>>

CallCancelReflection ==
  LET r == CancelReflection(currentSession, aggregators)
  IN  /\ currentSession' = r.session
      /\ aggregators' = r.aggregators
      /\ lastCall' = [op |-> "cancelReflection",
                      hadSession |-> currentSession # Null,
                      success |-> r.result.success,
                      threw |-> r.result.threw]
      /\ UNCHANGED <<currentProjectSession, files, clock, dialogVars, tl, fn>>

CallGetSessionStatus ==
  /\ lastCall' = [op |-> "getSessionStatus",
                  hadSession |-> currentSession # Null,
                  status |-> GetSessionStatus(currentSession)]
  /\ UNCHANGED <<currentSession, currentProjectSession, aggregators, files,
                 clock, dialogVars, tl, fn>>

CallInitProjectReflection ==
  \E repos \in RepoLists, agg \in Aggregations :
    LET r == InitProjectReflection(currentProjectSession, aggregators, repos, agg)
    IN  /\ Len(ValidRepos(repos)) = 0 \/ aggregators.created < MaxAggregators
        /\ currentProjectSession' = r.session
        /\ aggregators' = r.aggregators
        /\ lastCall' = [op |-> "initProjectReflection",
                        hadSession |-> currentProjectSession # Null,
                        repos |-> repos,
                        success |-> r.result.success,
                        threw |-> r.result.threw]
        /\ UNCHANGED <<currentSession, files, clock, dialogVars, tl, fn>>

CallGetCurrentProjectQuestion ==
  LET r == GetCurrentProjectQuestion(currentProjectSession)
  IN  /\ lastCall' = [op |-> "getCurrentProjectQuestion",
                      hadSession |-> currentProjectSession # Null,
                      success |-> r.success,
                      threw |-> r.threw,
                      isComplete |-> r.isComplete]
      /\ UNCHANGED <<currentSession, currentProjectSession, aggregators, files,
                     clock, dialogVars, tl, fn>>

CallSubmitProjectAnswer ==
  \E questionId \in ProjectQuestionIds, answer \in ProjectAnswers :
    LET r == SubmitProjectAnswer(currentProjectSession, questionId, answer)
    IN  /\ currentProjectSession # Null =>
             currentProjectSession[1].currentQuestionIndex
               < Len(currentProjectSession[1].questions) + MaxOverrun
        /\ currentProjectSession' = r.session
        /\ lastCall' = [op |-> "submitProjectAnswer",
                        hadSession |-> currentProjectSession # Null,
                        success |-> r.result.success,
                        threw |-> r.result.threw,
                        action |-> r.result.action]
        /\ UNCHANGED <<currentSession, aggregators, files, clock, dialogVars, tl, fn>>

CallCompleteProjectReflection ==
  \E ioFails \in BOOLEAN :
    LET r == CompleteProjectReflection(currentProjectSession, aggregators, files,
                                       clock + 1, ioFails)
    IN  /\ currentProjectSession = Null \/ ioFails \/ clock < MaxReports
        /\ currentProjectSession' = r.session
        /\ aggregators' = r.aggregators
        /\ files' = r.files
        /\ clock' = IF r.result.success THEN clock + 1 ELSE clock
        /\ lastCall' = [op |-> "completeProjectReflection",
                        hadSession |-> currentProjectSession # Null,
                        success |-> r.result.success,
                        threw |-> r.result.threw]
        /\ UNCHANGED <<currentSession, dialogVars, tl, fn>>

CallCancelProjectReflection ==
  LET r == CancelProjectReflection(currentProjectSession, aggregators)
  IN  /\ currentProjectSession' = r.session
      /\ aggregators' = r.aggregators
      /\ lastCall' = [op |-> "cancelProjectReflection",
                      hadSession |-> currentProjectSession # Null,
                      success |-> r.result.success,
                      threw |-> r.result.threw]
      /\ UNCHANGED <<currentSession, files, clock, dialogVars, tl, fn>>

CallGetProjectSessionStatus ==
  /\ lastCall' = [op |-> "getProjectSessionStatus",
                  hadSession |-> currentProjectSession # Null,
                  status |-> GetProjectSessionStatus(currentProjectSession)]
  /\ UNCHANGED <<currentSession, currentProjectSession, aggregators, files,
                 clock, dialogVars, tl, fn>>

Next ==
  \/ CallInitReflection
  \/ CallDailyReflect
  \/ CallGetCurrentQuestion
  \/ CallSubmitAnswer
  \/ CallCompleteReflection
  \/ CallCancelReflection
  \/ CallGetSessionStatus
  \/ CallInitProjectReflection
  \/ CallGetCurrentProjectQuestion
  \/ CallSubmitProjectAnswer
  \/ CallCompleteProjectReflection
  \/ CallCancelProjectReflection
  \/ CallGetProjectSessionStatus

Spec == Init /\ [][Next]_vars

(***************************************************************************)
(* Claims about the timeline (checked under TimelineSpec).                 *)
(***************************************************************************)

\* C9: the events returned by getDailyTimeline are in non-decreasing
\* timestamp order: event[i].timestamp <= event[i+1].timestamp for all i.
C9_TimelineNonDecreasing ==
  tl.pc = "done" =>
    \A i \in 1..(Len(tl.events) - 1) :
      Leq(tl.events[i].timestamp, tl.events[i + 1].timestamp)

\* C10: the merge is stable: two events with equal timestamps are returned
\* in the order they have in the concatenation observations-then-commits.
C10_MergeIsStable ==
  tl.pc = "done" =>
    \A i, j \in 1..Len(TimelineConcat) :
      (i < j /\ NumEq(TimelineConcat[i].timestamp, TimelineConcat[j].timestamp))
        => PositionOf(TimelineConcat[i].id) < PositionOf(TimelineConcat[j].id)

(***************************************************************************)
(* Claims about the DialogStateMachine (checked under DialogSpec).         *)
(***************************************************************************)

\* C1: every question gets at most one follow-up.  A first answer of trimmed
\* length < 20 to a question that defines a follow-up returns follow_up
\* (state following_up, index unchanged, returned id = id + "-followup"),
\* and once a follow-up was returned for the current question the next
\* submission advances the index whatever its length.
C1_AtMostOneFollowUp ==
  [][(IsSubmitStep /\ GetCurrentQuestion(context) # Null) =>
       LET q == GetCurrentQuestion(context)[1]
           answer == lastResult'.answer
       IN  /\ (/\ hist.answersForCurrent = 0
               /\ Trim(answer).text < 20
               /\ q.follow_up # "")
                => /\ lastResult'.action = "follow_up"
                   /\ context'.state = "following_up"
                   /\ context'.currentQuestionIndex = context.currentQuestionIndex
                   /\ lastResult'.question # Null
                   /\ lastResult'.question[1].id = q.id \o "-followup"
           /\ hist.followUpsForCurrent >= 1
                => context'.currentQuestionIndex = context.currentQuestionIndex + 1
    ]_vars

\* C1 witness: a short answer given after the question's follow-up advanced
\* the index.
C1_Witness ==
  /\ lastResult.op = "processAnswer"
  /\ lastResult.prevFollowUps = 1
  /\ Trim(lastResult.answer).text < 20
  /\ context.currentQuestionIndex = lastResult.prevIndex + 1

\* C2: after start(), with N >= 1 questions and only answers of trimmed
\* length >= 20, the k-th submission (k <= N) leaves the index at k; the
\* first N-1 submissions returned next, the N-th returned complete and left
\* the state complete, and no follow_up was returned.
C2_LongAnswersCompleteInN ==
  (/\ hist.startedFirst
   /\ hist.allLong
   /\ NumQuestions >= 1
   /\ hist.submits <= NumQuestions)
    => /\ hist.followUps = 0
       /\ context.currentQuestionIndex = hist.submits
       /\ hist.submits < NumQuestions
            => /\ hist.nexts = hist.submits
               /\ hist.completes = 0
               /\ context.state # "complete"
       /\ hist.submits = NumQuestions
            => /\ hist.nexts = NumQuestions - 1
               /\ hist.completes = 1
               /\ (lastResult.op = "processAnswer"
                     => lastResult.action = "complete" /\ context.state = "complete")

\* C2 witness: the longest dialog completed by long answers alone.
C2_Witness ==
  /\ hist.startedFirst
  /\ hist.allLong
  /\ NumQuestions = MaxQuestions
  /\ hist.submits = NumQuestions
  /\ lastResult.op = "processAnswer"
  /\ context.state = "complete"

\* C3: in state complete every processAnswer call returns action complete
\* with no question and leaves the question index, the answers map and the
\* follow-up counter unchanged.
C3_CompleteIsAbsorbingForAnswers ==
  [][(IsSubmitStep /\ context.state = "complete") =>
       /\ lastResult'.action = "complete"
       /\ lastResult'.question = Null
       /\ context'.state = "complete"
       /\ context'.currentQuestionIndex = context.currentQuestionIndex
       /\ context'.answers = context.answers
       /\ context'.followUpCount = context.followUpCount
    ]_vars

\* C3 witness: an answer was submitted to a machine that was already
\* complete and had recorded answers.
C3_Witness ==
  /\ lastResult.op = "processAnswer"
  /\ lastResult.prevIndex >= NumQuestions
  /\ NumQuestions >= 1
  /\ DOMAIN context.answers # {}
  /\ context.state = "complete"

\* the calls so far were start(), one or more times, and then only
\* processAnswer, or the last call was processAnswer
AfterAnswerOrFreshStart ==
  hist.startedFirst /\ (lastResult.op = "processAnswer" \/ hist.submits = 0)

\* C27 as stated: after start() on a machine with N questions the state is
\* complete once 2N answers have been processed, whatever they were, and
\* not before N answers have been processed.
C27_CompleteWithin2N ==
  /\ AfterAnswerOrFreshStart /\ hist.submits >= 2 * NumQuestions
       => context.state = "complete"
  /\ context.state = "complete" => hist.submits >= NumQuestions

\* C27, amended: the same for a machine with N >= 1 questions.
C27_CompleteWithin2NOfSome ==
  /\ AfterAnswerOrFreshStart /\ NumQuestions >= 1 /\ hist.submits >= 2 * NumQuestions
       => context.state = "complete"
  /\ context.state = "complete" /\ NumQuestions >= 1 => hist.submits >= NumQuestions

\* every question of the longest list had its follow-up, and the 2N-th
\* answer completed the dialog
C27_Witness ==
  /\ hist.startedFirst
  /\ NumQuestions = MaxQuestions
  /\ hist.submits = 2 * NumQuestions
  /\ hist.followUps = NumQuestions
  /\ hist.completes = 1
  /\ lastResult.op = "processAnswer"
  /\ context.state = "complete"

\* C34: completeReflection does not require the dialog to be complete.  At
\* any point of an active session, before the first answer included, a call
\* whose report is written succeeds, leaves no active session, closes the
\* session's aggregator and saves the learnings extracted from the answers
\* given so far: a question without an answer yields no learning.
C34_CompleteAtAnyPoint ==
  /\ [](currentSession # Null =>
          LET s == currentSession[1]
              r == CompleteReflection(currentSession, aggregators, files,
                                      clock + 1, FALSE)
          IN  /\ r.result.success
              /\ r.session = Null
              /\ s.aggregator \notin r.aggregators.open)
  /\ [][(lastCall'.op = "completeReflection" /\ lastCall'.success) =>
          LET s == currentSession[1]
              learnings == files'.reports[s.date][1].learnings
          IN  /\ currentSession' = Null
              /\ learnings = ExtractLearnings(s.engine.questions, s.engine.answers)
              /\ \A i \in DOMAIN learnings :
                    learnings[i].question \in DOMAIN s.engine.answers]_vars

\* a session completed before its dialog was: no active session is left
C34_Witness ==
  /\ lastCall.op = "completeReflection"
  /\ lastCall.success
  /\ ~lastCall.finished
  /\ currentSession = Null

\* C31: for a dialog with N >= 1 questions the progress reported in every
\* state, which is the progress every processAnswer result is sent with, is
\* current = question index + 1 with 1 <= current <= total = N.
C31_ProgressWithinRange ==
  Len(context.questions) >= 1 =>
    LET progress == GetProgress(context)
    IN  /\ progress.current = context.currentQuestionIndex + 1
        /\ progress.total = Len(context.questions)
        /\ 1 <= progress.current
        /\ progress.current <= progress.total

\* C28: once the state is complete it stays complete, whichever of start()
\* and processAnswer() is called.
C28_CompleteIsAbsorbing ==
  [][context.state = "complete" => context'.state = "complete"]_vars

\* the ids of the questions at the (0-based) indices up to the current one
IdsReached ==
  {context.questions[i].id :
     i \in 1..Min(context.currentQuestionIndex + 1, NumQuestions)}

\* C29: the keys of the answers map are ids of questions at indices up to
\* the current one, never the id of a follow-up; an answer processed while
\* a question is current becomes the value of that question's id, in place
\* of an earlier answer, and the other entries stay as they are.
C29_AnswersKeyedByQuestionIds ==
  /\ [](DOMAIN context.answers \subseteq IdsReached)
  /\ [][(IsSubmitStep /\ GetCurrentQuestion(context) # Null) =>
          LET q == GetCurrentQuestion(context)[1]
          IN  /\ DOMAIN context'.answers = DOMAIN context.answers \cup {q.id}
              /\ context'.answers[q.id] = lastResult'.answer
              /\ \A k \in DOMAIN context.answers \ {q.id} :
                   context'.answers[k] = context.answers[k]
       ]_vars

\* a long answer to a follow-up has replaced the short answer to the
\* question
C29_Witness ==
  /\ lastResult.op = "processAnswer"
  /\ lastResult.prevFollowUps = 1
  /\ lastResult.prevIndex < NumQuestions
  /\ Trim(lastResult.answer).text >= 20
  /\ context.answers[context.questions[lastResult.prevIndex + 1].id] = lastResult.answer

DistinctIds ==
  \A i, j \in 1..NumQuestions :
    context.questions[i].id = context.questions[j].id => i = j

\* C30: in state complete, over questions with pairwise distinct ids, the
\* answers map has one entry for every question.
C30_EveryQuestionAnswered ==
  context.state = "complete" /\ DistinctIds =>
    /\ DOMAIN context.answers = {context.questions[i].id : i \in 1..NumQuestions}
    /\ Cardinality(DOMAIN context.answers) = NumQuestions

\* a completed dialog over two questions with different ids, one of which
\* had its follow-up
C30_Witness ==
  /\ context.state = "complete"
  /\ DistinctIds
  /\ NumQuestions = 2
  /\ hist.followUps = 1
  /\ Cardinality(DOMAIN context.answers) = 2

(***************************************************************************)
(* SamplingSpec: one aggregateProject call over the histories of two       *)
(* repositories and a path that is not a repository.  A history is plain   *)
(* commits with one subject of interest at the newest commit, at the       *)
(* oldest, at both, at every other commit, or in every commit.             *)
(***************************************************************************)
MaxExcess == 2

HistoryLengths == 0..(SampleThreshold + MaxExcess)

SubjectsOfInterest ==
  {<<"fix: parser">>, <<"Fix(ui): x">>, <<"fixture data">>, <<"bugfix: npe">>,
   <<"chore: fix typo">>, <<"Revert x">>, <<"chore: revert x">>, <<"Merge pr">>,
   <<"urgent HOTFIX">>, <<"feat: a", "b">>}

Placements == {"newest", "oldest", "ends", "odd", "all"}

\* the log git prints, newest commit first; the newest commit is an hour
\* younger than the others, which were all made at the same instant
History(n, subject, placement) ==
  [i \in 1..n |->
     [hash |-> FullHash(i),
      subject |-> IF \/ placement = "all"
                     \/ placement \in {"newest", "ends"} /\ i = 1
                     \/ placement \in {"oldest", "ends"} /\ i = n
                     \/ placement = "odd" /\ i % 2 = 1
                    THEN subject ELSE <<"docs: a">>,
      author |-> "ann",
      email |-> "ann@example.com",
      date |-> IF i = 1 THEN "2026-02-03T06:00:00+00:00"
               ELSE IF i % 2 = 0 THEN "2026-02-03T05:00:00+00:00"
               ELSE "2026-02-03T07:00:00+02:00"]]

Histories ==
  {History(n, subject, placement) :
     n \in HistoryLengths, subject \in SubjectsOfInterest, placement \in Placements}

\* the repositories of a project: the history is split in two halves, and
\* a third path has no .git directory
ProjectRepos(history) ==
  <<[isGitRepo |-> TRUE, log |-> SubSeq(history, 1, Len(history) \div 2)],
    [isGitRepo |-> FALSE, log |-> SubSeq(history, 1, Min(1, Len(history)))],
    [isGitRepo |-> TRUE, log |-> SubSeq(history, Len(history) \div 2 + 1, Len(history))]>>

SamplingInit ==
  /\ \E history \in Histories :
       fn = [pc |-> "ready", op |-> "aggregateProject", repos |-> ProjectRepos(history)]
  /\ IdleDialog
  /\ IdleApi
  /\ IdleTimeline

CallAggregateProject ==
  /\ fn.pc = "ready"
  /\ fn.op = "aggregateProject"
  /\ fn' = [pc |-> "done", op |-> fn.op, repos |-> fn.repos,
            data |-> AggregateProject(fn.repos)]
  /\ UNCHANGED <<dialogVars, apiVars, tl>>

SamplingNext == CallAggregateProject

SamplingSpec == SamplingInit /\ [][SamplingNext]_vars

Aggregated == fn.pc = "done" /\ fn.op = "aggregateProject"

\* the commits the call read, and the hashes of the commits it returned
CommitsRead == ReadRepos(fn.repos)

ReturnedHashes == {fn.data.commits[i].hash : i \in 1..Len(fn.data.commits)}

\* the message matches revert, merge, hotfix or fix somewhere, in any case
MatchesAnywhere(commit) ==
  LET msg == ToLowerCase(Spelling[commit.message])
  IN  \/ Includes(msg, <<"r","e","v","e","r","t">>)
      \/ Includes(msg, <<"m","e","r","g","e">>)
      \/ Includes(msg, <<"h","o","t","f","i","x">>)
      \/ Includes(msg, <<"f","i","x">>)

\* the message starts with fix, revert or merge, or contains hotfix, in
\* any case
MatchesAtStart(commit) ==
  LET msg == ToLowerCase(Spelling[commit.message])
  IN  \/ StartsWith(msg, <<"f","i","x">>)
      \/ StartsWith(msg, <<"r","e","v","e","r","t">>)
      \/ StartsWith(msg, <<"m","e","r","g","e">>)
      \/ Includes(msg, <<"h","o","t","f","i","x">>)

Sampled == Aggregated /\ Len(CommitsRead) > SampleThreshold

(***************************************************************************)
(* Claims about aggregateProject's commits (SamplingSpec)                  *)
(***************************************************************************)
\* C11 as stated: when more commits than the threshold are read, every
\* commit whose message contains revert, merge, hotfix or fix, as a prefix
\* or anywhere else, is among the commits returned.
C11_NoMatchingCommitDropped ==
  Sampled =>
    \A i \in 1..Len(CommitsRead) :
      MatchesAnywhere(CommitsRead[i]) => CommitsRead[i].hash \in ReturnedHashes

\* C11, amended: when more commits than the threshold are read, every
\* commit whose message starts with fix, revert or merge, or contains
\* hotfix, is among the commits returned, however many they are.
C11_NoLeadingMatchDropped ==
  Sampled =>
    \A i \in 1..Len(CommitsRead) :
      MatchesAtStart(CommitsRead[i]) => CommitsRead[i].hash \in ReturnedHashes

\* a sampled history in which a commit is kept for its message and another
\* commit is dropped
C11_Witness ==
  /\ Sampled
  /\ \E i \in 1..Len(CommitsRead) : MatchesAtStart(CommitsRead[i])
  /\ \E i \in 1..Len(CommitsRead) : CommitsRead[i].hash \notin ReturnedHashes

\* C12 as stated: the commits returned are never more than the threshold.
C12_AtMostThreshold ==
  Aggregated => Len(fn.data.commits) <= SampleThreshold

NumHighImportance ==
  Cardinality({i \in 1..Len(CommitsRead) : MatchesAtStart(CommitsRead[i])})

\* C12, amended: the commits returned are never more than the threshold,
\* or than the commits read whose message starts with fix, revert or merge
\* or contains hotfix, whichever is larger.
C12_AtMostThresholdOrKept ==
  Aggregated =>
    \/ Len(fn.data.commits) <= SampleThreshold
    \/ Len(fn.data.commits) <= NumHighImportance

\* a sampled history whose result is filled up to the threshold by the
\* stride
C12_Witness ==
  /\ Sampled
  /\ Len(fn.data.commits) = SampleThreshold
  /\ NumHighImportance < SampleThreshold

\* C13: when no more commits than the threshold are read, the commits
\* returned are the commits read, each once, in timestamp order.
C13_SmallInputsReturnedInOrder ==
  Aggregated /\ Len(CommitsRead) <= SampleThreshold =>
    /\ Len(fn.data.commits) = Len(CommitsRead)
    /\ ReturnedHashes = {CommitsRead[i].hash : i \in 1..Len(CommitsRead)}
    /\ \A i \in 1..(Len(fn.data.commits) - 1) :
         Leq(DateGetTime(fn.data.commits[i].timestamp),
             DateGetTime(fn.data.commits[i + 1].timestamp))

\* C37: when more commits than the target are read, the stride step is at
\* least 1 whenever the remaining budget is positive; the commits returned
\* have pairwise different hashes, are commits of the input, and are in
\* timestamp order.
C37_SampleWellFormed ==
  Aggregated /\ Len(CommitsRead) > SampleThreshold =>
    LET kept == KeepImportant(fn.data.allCommits, 1, [sampled |-> <<>>, seen |-> {}])
        remaining == SampleThreshold - Len(kept.sampled)
        returned == fn.data.commits
    IN  /\ remaining > 0 => Len(fn.data.allCommits) \div remaining >= 1
        /\ \A i, j \in 1..Len(returned) : returned[i].hash = returned[j].hash => i = j
        /\ \A i \in 1..Len(returned) :
             \E k \in 1..Len(fn.data.allCommits) : returned[i] = fn.data.allCommits[k]
        /\ \A i \in 1..(Len(returned) - 1) :
             Leq(DateGetTime(returned[i].timestamp), DateGetTime(returned[i + 1].timestamp))

\* the subject git wrote: its pieces with the "|" characters between them
RECURSIVE SubjectText(_)
SubjectText(pieces) ==
  IF Len(pieces) <= 1 THEN (IF pieces = <<>> THEN "" ELSE pieces[1])
  ELSE pieces[1] \o "|" \o SubjectText(Tail(pieces))

\* C40: for every commit of a repository read, the commit parsed from its
\* header line has the hash, subject, author, email and date git wrote,
\* also when the subject contains "|".
C40_HeaderRoundTrip ==
  Aggregated =>
    \A r \in 1..Len(fn.repos) :
      fn.repos[r].isGitRepo =>
        \A i \in 1..Len(fn.repos[r].log) :
          LET c == fn.repos[r].log[i]
          IN  \E k \in 1..Len(fn.data.allCommits) :
                fn.data.allCommits[k] =
                  [hash |-> c.hash, message |-> SubjectText(c.subject),
                   author |-> c.author, email |-> c.email, timestamp |-> c.date]

(***************************************************************************)
(* PitfallSpec: detectFromCommits over a list of commits, or a given list  *)
(* of signals, followed by mergeSignals applied to the result and then to  *)
(* its own output.  In a list of commits the last k carry one subject and  *)
(* the others another, the first j touch one list of files and the others  *)
(* another, and the commits are of one day or alternate between two.       *)
(***************************************************************************)
MaxPitfallCommits == 6

MaxSignals == 3

MaxMerges == 2

MessagePairs ==
  {<<"fix: parser", "docs: a">>, <<"Fix(ui): x", "fixture data">>,
   <<"bugfix: npe", "chore: fix typo">>, <<"hotfix: db", "Revert x">>,
   <<"refactor: core", "fix: parser">>}

PathA == <<"src/a.ts">>

PathB == <<"src/b.ts">>

\* the path docs/10:30.md
PathColon == <<"docs/10", "30.md">>

FilePairs ==
  {<<<<PathA>>, <<>>>>, <<<<PathA, PathB>>, <<PathB>>>>, <<<<PathColon>>, <<PathA>>>>}

PitfallCommits(n, k, messages, j, paths, days) ==
  [i \in 1..n |->
     LET mine == IF i <= j THEN paths[1] ELSE paths[2]
     IN  [hash |-> FullHash(i),
          message |-> IF i > n - k THEN messages[1] ELSE messages[2],
          timestamp |-> IF days = 2 /\ i % 2 = 0
                          THEN "2026-02-04T05:00:00+00:00"
                          ELSE "2026-02-03T05:00:00+00:00",
          files |-> [f \in 1..Len(mine) |-> [path |-> mine[f]]],
          additions |-> IF i % 2 = 1 THEN 150 ELSE 20,
          deletions |-> 120]]

CommitInputs ==
  {PitfallCommits(n, k, messages, j, paths, days) :
     n \in 0..MaxPitfallCommits, k \in 0..MaxPitfallCommits,
     messages \in MessagePairs, j \in 0..MaxPitfallCommits, paths \in FilePairs,
     days \in 1..2}

ShortHashes(from, to) == [i \in 1..(to - from + 1) |-> Substring8(FullHash(from + i - 1))]

GivenSignal(type, file, severity, commits) ==
  [type |-> type, file |-> file, date |-> "2026-02-03", commits |-> commits,
   severity |-> severity,
   description |-> Describe("given", <<>>, <<>>, <<>>)]

SignalPool ==
  {GivenSignal("fix", Null, "low", ShortHashes(1, 1)),
   GivenSignal("fix", Null, "medium", ShortHashes(1, 2)),
   GivenSignal("fix", Null, "high", ShortHashes(1, 6)),
   GivenSignal("fix", Null, "low", ShortHashes(5, 11)),
   GivenSignal("high_frequency", Some(PathA), "medium", ShortHashes(2, 2)),
   GivenSignal("high_frequency", Some(PathA), "high", ShortHashes(2, 3)),
   GivenSignal("high_frequency", Some(PathB), "low", ShortHashes(1, 1)),
   GivenSignal("high_frequency", Some(PathColon), "low", ShortHashes(4, 4)),
   GivenSignal("revert", Null, "high", ShortHashes(1, 6) \o ShortHashes(1, 6))}

SignalInputs == UNION {[1..n -> SignalPool] : n \in 0..MaxSignals}

PitfallInit ==
  /\ \/ \E commits \in CommitInputs :
          fn = [pc |-> "commits", commits |-> commits, signals |-> <<>>,
                detected |-> FALSE, before |-> <<>>, merges |-> 0]
     \/ \E signals \in SignalInputs :
          fn = [pc |-> "signals", commits |-> <<>>, signals |-> signals,
                detected |-> FALSE, before |-> <<>>, merges |-> 0]
  /\ IdleDialog
  /\ IdleApi
  /\ IdleTimeline

CallDetectFromCommits ==
  /\ fn.pc = "commits"
  /\ fn' = [fn EXCEPT !.pc = "signals", !.signals = DetectFromCommits(fn.commits),
                      !.detected = TRUE]
  /\ UNCHANGED <<dialogVars, apiVars, tl>>

CallMergeSignals ==
  /\ fn.pc = "signals"
  /\ fn.merges < MaxMerges
  /\ fn' = [fn EXCEPT !.before = fn.signals, !.signals = MergeSignals(fn.signals),
                      !.merges = fn.merges + 1]
  /\ UNCHANGED <<dialogVars, apiVars, tl>>

PitfallNext == CallDetectFromCommits \/ CallMergeSignals

PitfallSpec == PitfallInit /\ [][PitfallNext]_vars

\* detectFromCommits has returned, and mergeSignals has returned n times
Detected == fn.pc = "signals" /\ fn.detected /\ fn.merges = 0

Merged(n) == fn.pc = "signals" /\ fn.merges = n

\* the signals of a type, in order
OfType(signals, type) ==
  LET HasType(signal) == signal.type = type
  IN  SelectSeq(signals, HasType)

\* the short hashes of the commits whose message starts with one of the fix
\* prefixes, in order
FixHashes ==
  LET fixes == SelectSeq(fn.commits, IsFix)
  IN  [i \in 1..Len(fixes) |-> Substring8(fixes[i].hash)]

\* the (day, path) pairs touched, and the commits touching one, a commit
\* counted once for each time it lists the path
AllTouches ==
  UNION {{<<i, f>> : f \in 1..Len(fn.commits[i].files)} : i \in 1..Len(fn.commits)}

DayPathOf(touch) ==
  <<SplitT0(fn.commits[touch[1]].timestamp),
    fn.commits[touch[1]].files[touch[2]].path>>

DayPaths == {DayPathOf(touch) : touch \in AllTouches}

TouchesOf(dayPath) == {touch \in AllTouches : DayPathOf(touch) = dayPath}

\* the (type, file-or-none) key of a signal, and the signals with a key
KeyOf(signal) == <<signal.type, signal.file>>

WithKey(signals, key) ==
  LET HasKey(signal) == KeyOf(signal) = key
  IN  SelectSeq(signals, HasKey)

Range(seq) == {seq[i] : i \in 1..Len(seq)}

SeverityRank == ("low" :> 1 @@ "medium" :> 2 @@ "high" :> 3)

(***************************************************************************)
(* Claims about the pitfall detector (PitfallSpec)                         *)
(***************************************************************************)
\* C14: mergeSignals applied to its own output returns that output: the
\* same signals, in the same number.
C14_MergeIsIdempotent ==
  Merged(2) => Len(fn.signals) = Len(fn.before) /\ fn.signals = fn.before

\* a second merge of a result in which the first merge joined signals
C14_Witness ==
  /\ Merged(2)
  /\ \E i \in 1..Len(fn.signals) : fn.signals[i].description.related # <<>>
  /\ Len(fn.signals) > 1

C16_HighFrequencySignals ==
  Detected =>
    \A dayPath \in DayPaths :
      LET touches == Cardinality(TouchesOf(dayPath))
          IsMine(signal) ==
            signal.date = dayPath[1] /\ signal.file = Some(dayPath[2])
          mine == SelectSeq(OfType(fn.signals, "high_frequency"), IsMine)
      IN  IF touches >= 3
            THEN /\ Len(mine) = 1
                 /\ mine[1].severity = (IF touches >= 5 THEN "high" ELSE "medium")
                 /\ Len(mine[1].commits) <= 5
            ELSE mine = <<>>

\* C17: mergeSignals returns one signal for each (type, file-or-none) key
\* of its input; the signal of a key with several members has the highest
\* of their severities and their commit hashes, each once, cut to ten; the
\* only member of a key is returned as it is.
C17_MergePerKey ==
  Merged(1) =>
    /\ {KeyOf(signal) : signal \in Range(fn.signals)}
         = {KeyOf(signal) : signal \in Range(fn.before)}
    /\ \A i \in 1..Len(fn.signals) :
         LET out == fn.signals[i]
             members == WithKey(fn.before, KeyOf(out))
             hashes == UNION {Range(members[m].commits) : m \in 1..Len(members)}
         IN  /\ Len(WithKey(fn.signals, KeyOf(out))) = 1
             /\ IF Len(members) = 1 THEN out = members[1]
                ELSE /\ \A m \in 1..Len(members) :
                          SeverityRank[out.severity] >= SeverityRank[members[m].severity]
                     /\ \E m \in 1..Len(members) : out.severity = members[m].severity
                     /\ Range(out.commits) \subseteq hashes
                     /\ Cardinality(Range(out.commits)) = Len(out.commits)
                     /\ Len(out.commits) = Min(10, Cardinality(hashes))

\* a merge that joined signals of different severities whose hashes, each
\* counted once, are more than ten
C17_Witness ==
  /\ Merged(1)
  /\ \E i \in 1..Len(fn.signals) :
       LET members == WithKey(fn.before, KeyOf(fn.signals[i]))
       IN  /\ Len(members) > 1
           /\ members[1].severity # fn.signals[i].severity
           /\ Len(fn.signals[i].commits) = 10
           /\ Len(FlatCommits(members)) > 10

(***************************************************************************)
(* LearningSpec: generateQuestions for a timeline of some number of        *)
(* events, then extractLearnings over the questions and a record of        *)
(* answers to some of the first of them.                                   *)
(***************************************************************************)
MaxEvents == 16

MaxAnswered == 2

Answer(spaces, text, keyword, sentence) ==
  [spaces |-> spaces, text |-> text, keyword |-> keyword, sentence |-> sentence]

LearningAnswers ==
  {Answer(0, 0, FALSE, 0),        \* the empty string
   Answer(11, 0, FALSE, 0),       \* blank
   Answer(0, 9, TRUE, 0),         \* one character short, with a keyword
   Answer(5, 9, FALSE, 9),        \* short once trimmed, 14 characters raw
   Answer(0, 10, FALSE, 0),
   Answer(60, 50, TRUE, 20),      \* 110 characters raw, 50 trimmed
   Answer(0, 51, TRUE, 0),
   Answer(0, 100, TRUE, 100),
   Answer(0, 101, FALSE, 30),
   Answer(0, 101, TRUE, 0),
   Answer(3, 101, TRUE, 0),
   Answer(0, 200, FALSE, 40),
   Answer(0, 201, TRUE, 40),      \* cut to its first sentence
   Answer(0, 201, FALSE, 0)}      \* cut to 200 characters and "..."

Timelines == {[i \in 1..n |-> [id |-> i]] : n \in 0..MaxEvents}

\* the records of answers to some of the first MaxAnswered questions
AnswerRecords(questions) ==
  UNION {[ids -> LearningAnswers] :
           ids \in SUBSET {questions[i].id : i \in 1..Min(MaxAnswered, Len(questions))}}

LearningInit ==
  /\ \E events \in Timelines : fn = [pc |-> "timeline", events |-> events]
  /\ IdleDialog
  /\ IdleApi
  /\ IdleTimeline

CallGenerateQuestions ==
  /\ fn.pc = "timeline"
  /\ fn' = [pc |-> "questions", events |-> fn.events,
            questions |-> GenerateQuestions(fn.events)]
  /\ UNCHANGED <<dialogVars, apiVars, tl>>

CallExtractLearnings ==
  /\ fn.pc = "questions"
  /\ \E answers \in AnswerRecords(fn.questions) :
       fn' = [pc |-> "learnings", events |-> fn.events, questions |-> fn.questions,
              answers |-> answers,
              learnings |-> ExtractLearnings(fn.questions, answers)]
  /\ UNCHANGED <<dialogVars, apiVars, tl>>

LearningNext == CallGenerateQuestions \/ CallExtractLearnings

LearningSpec == LearningInit /\ [][LearningNext]_vars

Generated == fn.pc \in {"questions", "learnings"}

Extracted == fn.pc = "learnings"

(***************************************************************************)
(* Claims about questions and learnings (LearningSpec)                     *)
(***************************************************************************)
\* C18: generateQuestions returns 3 questions for fewer than 5 events, 5
\* for 5 to 15 events and 8 for more than 15, and the category of the
\* question at position i (from 0) is the (i mod 3)-th of technical,
\* decision, efficiency.
C18_QuestionCountAndCategories ==
  Generated =>
    LET n == Len(fn.events)
    IN  /\ n < 5 => Len(fn.questions) = 3
        /\ n >= 5 /\ n <= 15 => Len(fn.questions) = 5
        /\ n > 15 => Len(fn.questions) = 8
        /\ \A i \in 0..(Len(fn.questions) - 1) :
             fn.questions[i + 1].category
               = <<"technical", "decision", "efficiency">>[(i % 3) + 1]

\* eight questions for more than 15 events
C18_Witness ==
  /\ fn.pc = "questions"
  /\ Len(fn.events) > 15
  /\ Len(fn.questions) = 8

\* the questions whose recorded answer has at least 10 characters between
\* its leading and trailing white space
WellAnswered ==
  {i \in 1..Len(fn.questions) :
     /\ fn.questions[i].id \in DOMAIN fn.answers
     /\ fn.answers[fn.questions[i].id].text >= 10}

\* C19: extractLearnings returns as many learnings as there are questions
\* whose recorded answer has a trimmed length of at least 10, and none for
\* a question without an answer or with a shorter one.
C19_LearningsOfLongEnoughAnswers ==
  Extracted =>
    /\ Len(fn.learnings) = Cardinality(WellAnswered)
    /\ {fn.learnings[k].question : k \in 1..Len(fn.learnings)}
         = {fn.questions[i].id : i \in WellAnswered}

\* one answer gives a learning, and another, of 10 or more characters with
\* its white space but fewer without, gives none
C19_Witness ==
  /\ Extracted
  /\ Len(fn.learnings) = 1
  /\ \E id \in DOMAIN fn.answers :
       fn.answers[id].text < 10 /\ fn.answers[id].spaces + fn.answers[id].text >= 10

AnswerOf(learning) == fn.answers[learning.question]

\* C21 as stated: the content of a learning is the first sentence of the
\* trimmed answer when there is one; otherwise its first 200 characters and
\* an ellipsis when it is longer than 200; otherwise the trimmed answer.
C21_SentenceFirst ==
  Extracted =>
    \A k \in 1..Len(fn.learnings) :
      LET answer == AnswerOf(fn.learnings[k])
      IN  fn.learnings[k].content =
            IF answer.sentence > 0
              THEN [prefix |-> answer.sentence, ellipsis |-> FALSE]
              ELSE IF answer.text > 200 THEN [prefix |-> 200, ellipsis |-> TRUE]
              ELSE [prefix |-> answer.text, ellipsis |-> FALSE]

\* C21, amended: the content of a learning is the trimmed answer when that
\* has at most 200 characters; otherwise its first sentence when there is
\* one; otherwise its first 200 characters and an ellipsis.
C21_SentenceOfLongAnswers ==
  Extracted =>
    \A k \in 1..Len(fn.learnings) :
      LET answer == AnswerOf(fn.learnings[k])
      IN  fn.learnings[k].content =
            IF answer.text <= 200 THEN [prefix |-> answer.text, ellipsis |-> FALSE]
              ELSE IF answer.sentence > 0
                THEN [prefix |-> answer.sentence, ellipsis |-> FALSE]
                ELSE [prefix |-> 200, ellipsis |-> TRUE]

\* learnings of an answer cut to its first sentence, and of an answer of
\* exactly 200 characters with a shorter first sentence, kept whole
C21_Witness ==
  /\ Extracted
  /\ \E k \in 1..Len(fn.learnings) :
       /\ AnswerOf(fn.learnings[k]).text > 200
       /\ fn.learnings[k].content.prefix = AnswerOf(fn.learnings[k]).sentence
       /\ fn.learnings[k].content.prefix > 0
  /\ \E k \in 1..Len(fn.learnings) :
       /\ AnswerOf(fn.learnings[k]).text = 200
       /\ AnswerOf(fn.learnings[k]).sentence \in 1..199
       /\ fn.learnings[k].content.prefix = 200

(***************************************************************************)
(* ProfileSpec: a freshly initialised ProfileManager under any sequence of *)
(* addStrength, addWeakness, addProject and removeProject calls, each of   *)
(* which may fail to write the profile file.                               *)
(***************************************************************************)
MaxProfileCalls == 4

Traits == {"typescript", "testing"}

ProjectDirs == {"/work/app", "/work/lib"}

Roles == {"contributor", "owner"}

ProfileInit ==
  /\ fn = [pc |-> "profile", manager |-> Initialize, calls |-> 0]
  /\ IdleDialog
  /\ IdleApi
  /\ IdleTimeline

ProfileCall(manager) ==
  /\ fn.pc = "profile"
  /\ fn.calls < MaxProfileCalls
  /\ fn' = [fn EXCEPT !.manager = manager, !.calls = @ + 1]
  /\ UNCHANGED <<dialogVars, apiVars, tl>>

CallAddStrength ==
  \E strength \in Traits, written \in BOOLEAN :
    ProfileCall(AddStrength(fn.manager, strength, written))

CallAddWeakness ==
  \E weakness \in Traits, written \in BOOLEAN :
    ProfileCall(AddWeakness(fn.manager, weakness, written))

CallAddProject ==
  \E path \in ProjectDirs, role \in Roles, written \in BOOLEAN :
    ProfileCall(AddProject(fn.manager, path, role, written))

CallRemoveProject ==
  \E path \in ProjectDirs, written \in BOOLEAN :
    ProfileCall(RemoveProject(fn.manager, path, written))

ProfileNext ==
  CallAddStrength \/ CallAddWeakness \/ CallAddProject \/ CallRemoveProject

ProfileSpec == ProfileInit /\ [][ProfileNext]_vars

NoRepeat(seq) == \A i, j \in 1..Len(seq) : seq[i] = seq[j] => i = j

Paths(projects) == [i \in 1..Len(projects) |-> projects[i].path]

NoDuplicates(profile) ==
  /\ NoRepeat(profile.strengths)
  /\ NoRepeat(profile.weaknesses)
  /\ NoRepeat(Paths(profile.active_projects))

(***************************************************************************)
(* Claims about the profile (ProfileSpec)                                  *)
(***************************************************************************)
\* C26: after any sequence of addStrength, addWeakness, addProject and
\* removeProject calls on a freshly initialised profile, no string occurs
\* twice in strengths or in weaknesses and no path occurs twice in
\* active_projects, in the profile held and in the profile file.
C26_NoDuplicateEntries ==
  fn.pc = "profile" => NoDuplicates(fn.manager.profile) /\ NoDuplicates(fn.manager.file)

\* a profile with two strengths and a project, after more calls than it
\* has entries: one call found its entry present, or removed a project
C26_Witness ==
  /\ fn.pc = "profile"
  /\ Len(fn.manager.profile.strengths) = 2
  /\ Len(fn.manager.profile.active_projects) = 1
  /\ fn.manager.profile.weaknesses = <<>>
  /\ fn.calls = 4

(***************************************************************************)
(* GitSpec: one getCommits call on a repository whose log output is any    *)
(* list of up to MaxLogLines lines.                                        *)
(***************************************************************************)
MaxLogLines == 3

TextLine(words) ==
  [openQuote |-> FALSE, closeQuote |-> FALSE,
   pieces |-> <<JoinFrom(words, 1)>>, words |-> words]

\* a header line as git writes it, for a subject of one word
GitHeader(hash, subject) ==
  [openQuote |-> FALSE, closeQuote |-> FALSE,
   pieces |-> <<hash, subject, "Ann", "ann@example.com", "2026-02-03T05:00:00+00:00">>,
   words |-> <<hash \o "|" \o subject
               \o "|Ann|ann@example.com|2026-02-03T05:00:00+00:00">>]

LogLines ==
  {GitHeader(hash, "cleanup") : hash \in FullHashes}
  \cup {[openQuote |-> TRUE, closeQuote |-> TRUE,
          pieces |-> <<"abc123", "Fix bug", "John Doe", "john@example.com",
                       "2026-02-03T10:00:00+08:00">>,
          words |-> <<"\"abc123|Fix", "bug|John",
                      "Doe|john@example.com|2026-02-03T10:00:00+08:00\"">>],
         TextLine(<<"5", "2", "src/index.ts">>),
         TextLine(<<"-", "-", "assets/image.png">>),
         TextLine(<<"1", "0", "docs/my", "file.md">>),
         TextLine(<<"">>),
         TextLine(<<"invalid">>),
         TextLine(<<"warning:", "inexact", "rename", "detection">>)}

Outputs == UNION {[1..n -> LogLines] : n \in 0..MaxLogLines}

\* where the try block of getCommits fails: nowhere, at the log command
\* (it exits with an error, or writes more than maxBuffer), or in the parse
Failures == {"none", "log", "parse"}

GitInit ==
  /\ \E isGitRepo \in BOOLEAN, failure \in Failures, output \in Outputs :
       fn = [pc |-> "git",
             repo |-> [isGitRepo |-> isGitRepo, failure |-> failure, output |-> output]]
  /\ IdleDialog
  /\ IdleApi
  /\ IdleTimeline

CallGetCommits ==
  /\ fn.pc = "git"
  /\ fn' = [pc |-> "git done", repo |-> fn.repo, result |-> GetCommits(fn.repo)]
  /\ UNCHANGED <<dialogVars, apiVars, tl>>

GitNext == CallGetCommits

GitSpec == GitInit /\ [][GitNext]_vars

(***************************************************************************)
(* Claims about the git log reader (GitSpec)                               *)
(***************************************************************************)
\* C24: getCommits never throws; without a .git entry it returns an empty
\* list and the log command is not invoked; when the log command or the
\* parse fails it returns an empty list.
C24_GetCommitsNeverThrows ==
  fn.pc = "git done" =>
    /\ ~fn.result.threw
    /\ ~fn.repo.isGitRepo => fn.result.commits = <<>> /\ ~fn.result.invoked
    /\ fn.repo.isGitRepo /\ fn.repo.failure # "none" => fn.result.commits = <<>>

\* the log command of a repository has failed
C24_Witness ==
  /\ fn.pc = "git done"
  /\ fn.repo.isGitRepo
  /\ fn.repo.failure = "log"
  /\ fn.repo.output # <<>>

\* additions, deletions, path: two counts (a number, or "-" for a binary
\* file) and a path
IsNumstatLine(line) ==
  /\ Len(line.words) >= 3
  /\ \A i \in 1..2 : line.words[i] = "-" \/ line.words[i] \in DOMAIN Digits

Without(seq, i) == SubSeq(seq, 1, i - 1) \o SubSeq(seq, i + 1, Len(seq))

\* C25: a line that is neither a commit header nor a numeric-stat line is
\* skipped: the commits parsed, with their files and their totals, are
\* those of the output without the line.
C25_AnomaliesSkipped ==
  fn.pc = "git done" /\ fn.repo.isGitRepo /\ fn.repo.failure = "none" =>
    \A i \in 1..Len(fn.repo.output) :
      ~IsCommitLine(fn.repo.output[i]) /\ ~IsNumstatLine(fn.repo.output[i])
        => fn.result.commits = ParseGitLogLines(Without(fn.repo.output, i))

(***************************************************************************)
(* ProjectSpec: one call of getDailyReview, of getObservations or of       *)
(* aggregateProject, with the observation service in any state: the API    *)
(* down, up, or up at the probe and failing at the request; the database   *)
(* absent, answering, failing to open or failing at the query.             *)
(***************************************************************************)
MaxProjectCommits == 3

App == <<"a","p","p">>

Lib == <<"l","i","b">>

ProjectObservation(id, project, type, hasPitfallKeyword) ==
  [id |-> id, project |-> project, type |-> type,
   hasPitfallKeyword |-> hasPitfallKeyword, title |-> "note",
   created_at |-> "2026-02-03T05:00:00+00:00", created_at_epoch |-> 5]

ServiceObservations ==
  {<<>>,
   <<ProjectObservation(1, <<"M","y","A","p","p">>, "bugfix", FALSE)>>,
   <<ProjectObservation(1, <<"w","e","b">>, "bugfix", TRUE),
     ProjectObservation(2, <<>>, "change", TRUE)>>}

\* the transports: apiFails only of an API that is up, a database state
\* only of a database whose file exists
Transports ==
  {e \in [api : BOOLEAN, apiFails : BOOLEAN, db : BOOLEAN,
          dbState : {"answers", "unopened", "query fails"}] :
     /\ e.apiFails => e.api
     /\ ~e.db => e.dbState = "answers"}

\* the environments of getObservations and aggregateProject
ProjectEnvs ==
  {[api |-> t.api, apiFails |-> t.apiFails, db |-> t.db, dbState |-> t.dbState,
    observations |-> o] : t \in Transports, o \in ServiceObservations}

\* the environments of getDailyReview: the database, when its file exists,
\* answers
ReviewEnvs ==
  {[api |-> t.api, apiFails |-> t.apiFails, db |-> t.db, observations |-> o] :
     t \in {u \in Transports : u.dbState = "answers"}, o \in ServiceObservations}

CommitShapes ==
  {[message |-> "fix: parser", author |-> "ann",
    timestamp |-> "2026-02-03T06:00:00+00:00", paths |-> <<PathA>>],
   [message |-> "docs: a", author |-> "bob",
    timestamp |-> "2026-02-03T05:00:00+00:00", paths |-> <<PathB, PathA>>],
   [message |-> "refactor: core", author |-> "ann",
    timestamp |-> "2026-02-04T05:00:00+00:00", paths |-> <<PathB>>],
   [message |-> "fix: parser", author |-> "cy",
    timestamp |-> "2026-02-04T05:00:00+00:00", paths |-> <<>>]}

ProjectHistory(shapes) ==
  [i \in 1..Len(shapes) |->
     [hash |-> FullHash(i), message |-> shapes[i].message, author |-> shapes[i].author,
      email |-> shapes[i].author \o "@example.com", timestamp |-> shapes[i].timestamp,
      files |-> [f \in 1..Len(shapes[i].paths) |-> [path |-> shapes[i].paths[f]]],
      additions |-> 150, deletions |-> 120]]

ProjectHistories ==
  {ProjectHistory(shapes) :
     shapes \in UNION {[1..n -> CommitShapes] : n \in 0..MaxProjectCommits}}

\* histories of more commits than the sampling threshold: the last k carry
\* one subject and the others another, and all are ann's
LongHistories ==
  {[i \in 1..n |->
      PitfallCommits(n, k, messages, n, <<<<PathA>>, <<>>>>, days)[i]
        @@ [author |-> "ann", email |-> "ann@example.com"]] :
     n \in (SampleThreshold + 1)..(SampleThreshold + MaxExcess),
     k \in {0, 1, 3, SampleThreshold + 1}, messages \in MessagePairs, days \in 1..2}

\* the repositories of a project: the history is split between app and
\* lib, and a third path has no .git entry
ReposOf(history, k) ==
  <<[base |-> App, isGitRepo |-> TRUE, commits |-> SubSeq(history, 1, k)],
    [base |-> Lib, isGitRepo |-> FALSE, commits |-> history],
    [base |-> Lib, isGitRepo |-> TRUE, commits |-> SubSeq(history, k + 1, Len(history))]>>

ProjectInit ==
  /\ \/ \E env \in ReviewEnvs :
          fn = [pc |-> "mem", op |-> "getDailyReview", env |-> env, repos |-> <<>>]
     \/ \E env \in ProjectEnvs :
          fn = [pc |-> "mem", op |-> "getObservations", env |-> env, repos |-> <<>>]
     \/ \E env \in ProjectEnvs, history \in ProjectHistories, k \in 0..1 :
          fn = [pc |-> "mem", op |-> "aggregateProject", env |-> env,
                repos |-> ReposOf(history, Min(k, Len(history)))]
     \/ \E env \in ProjectEnvs, history \in LongHistories :
          fn = [pc |-> "mem", op |-> "aggregateProject", env |-> env,
                repos |-> ReposOf(history, 2)]
  /\ IdleDialog
  /\ IdleApi
  /\ IdleTimeline

MemCall(op, result) ==
  /\ fn.pc = "mem"
  /\ fn.op = op
  /\ fn' = [pc |-> "mem done", op |-> op, env |-> fn.env, repos |-> fn.repos,
            result |-> result]
  /\ UNCHANGED <<dialogVars, apiVars, tl>>

CallGetDailyReview == MemCall("getDailyReview", GetDailyObservations(fn.env))

CallGetObservations == MemCall("getObservations", GetObservations(fn.env))

CallAggregateProjectData ==
  MemCall("aggregateProject", AggregateProjectData(fn.repos, fn.env))

ProjectNext == CallGetDailyReview \/ CallGetObservations \/ CallAggregateProjectData

ProjectSpec == ProjectInit /\ [][ProjectNext]_vars

\* the observation service with nothing to return
NoObservations(env) == [env EXCEPT !.observations = <<>>]

\* the retrieval of the call's environment throws
RetrievalFails(env) == GetObservations(env).threw

(***************************************************************************)
(* Claims about the observation service (ProjectSpec)                      *)
(***************************************************************************)
\* C22: when the retrieval of observations fails during aggregateProject,
\* the call does not throw and returns what it returns with an empty list
\* of observations: the same commits, contributors, core files, time span
\* and pitfall signals of the commits, and no observation.
C22_FailureMeansNoObservations ==
  fn.pc = "mem done" /\ fn.op = "aggregateProject" /\ RetrievalFails(fn.env) =>
    /\ ~fn.result.threw
    /\ fn.result.observations = <<>>
    /\ fn.result.pitfalls = DetectFromCommits(SortByTime(ProjectCommits(fn.repos)))
    /\ fn.result = AggregateProjectData(fn.repos, [NoObservations(fn.env) EXCEPT !.dbState = "answers"])

\* the retrieval failed for a project with commits of two contributors, a
\* core file and a fix signal, while the service held related observations
C22_Witness ==
  /\ fn.pc = "mem done"
  /\ fn.op = "aggregateProject"
  /\ RetrievalFails(fn.env)
  /\ fn.env.observations # <<>>
  /\ Len(fn.result.stats.contributors) = 2
  /\ fn.result.stats.core_files # <<>>
  /\ fn.result.pitfalls # <<>>
  /\ fn.result.stats.time_span.start # fn.result.stats.time_span.end

\* C36: every short hash cited by a revert, fix or massive_refactor signal
\* of the result of aggregateProject is the first 8 characters of the hash
\* of a commit in the commits the result returns.
C36_CitedCommitsReturned ==
  fn.pc = "mem done" /\ fn.op = "aggregateProject" =>
    \A s \in 1..Len(fn.result.pitfalls) :
      fn.result.pitfalls[s].type \in {"revert", "fix", "massive_refactor"} =>
        \A h \in 1..Len(fn.result.pitfalls[s].commits) :
          \E c \in 1..Len(fn.result.commits) :
            Substring8(fn.result.commits[c].hash) = fn.result.pitfalls[s].commits[h]

\* C23: when the API was reported up and the request fails, getDailyReview
\* and getObservations return what the database returns if its file
\* exists, and throw otherwise.
C23_FallBackOrRethrow ==
  fn.pc = "mem done" /\ fn.op \in {"getDailyReview", "getObservations"}
    /\ fn.env.api /\ fn.env.apiFails =>
      IF fn.env.db
        THEN fn.result = (IF fn.op = "getObservations" THEN QueryDb(fn.env)
                          ELSE [threw |-> FALSE, observations |-> fn.env.observations])
        ELSE fn.result.threw

(***************************************************************************)
(* TypeSpec: the commit events and the by_type statistics of a daily       *)
(* timeline over any list of up to MaxTypedCommits commits.                *)
(***************************************************************************)
MaxTypedCommits == 2

TypedMessages ==
  {"fix: parser", "Fix padding", "bugfix: npe", "debug output", "feat: a", "Add login",
   "refactor: core", "docs: a", "update documents", "chore: fix typo", "build: ci",
   "latest build", "bump version", "Revert x", "test: x"}

TypedCommits ==
  UNION {{[i \in 1..n |-> [hash |-> FullHash(i), message |-> m[i], author |-> "ann",
                           email |-> "ann@example.com",
                           timestamp |-> "2026-02-03T05:00:00+00:00"]] :
            m \in [1..n -> TypedMessages]} : n \in 0..MaxTypedCommits}

TypedObservations ==
  {<<>>, <<[id |-> 1, created_at_epoch |-> 5, title |-> "note", type |-> "bugfix"]>>}

TypeInit ==
  /\ \E observations \in TypedObservations, commits \in TypedCommits :
       fn = [pc |-> "untyped", observations |-> observations, commits |-> commits]
  /\ IdleDialog
  /\ IdleApi
  /\ IdleTimeline

\* getDailyTimeline: the commit events with their types, and stats.by_type
CallComputeStats ==
  /\ fn.pc = "untyped"
  /\ fn' = [pc |-> "typed", observations |-> fn.observations, commits |-> fn.commits,
            events |-> [i \in 1..Len(fn.commits) |->
                          [id |-> CommitToEvent(fn.commits[i]).id,
                           type |-> CommitEventType(fn.commits[i])]],
            by_type |-> ByType(fn.observations, fn.commits)]
  /\ UNCHANGED <<dialogVars, apiVars, tl>>

TypeNext == CallComputeStats

TypeSpec == TypeInit /\ [][TypeNext]_vars

\* the lowercased message contains the word
Contains(message, word) == Includes(ToLowerCase(Spelling[message]), word)

Begins(message, word) == StartsWith(ToLowerCase(Spelling[message]), word)

\* the events of a type, plus the observations of that type
CountOfType(t) ==
  Cardinality({i \in 1..Len(fn.events) : fn.events[i].type = t})
    + Cardinality({i \in 1..Len(fn.observations) : fn.observations[i].type = t})

\* by_type counts exactly the types of the events
SameClassification ==
  /\ \A i \in 1..Len(fn.events) : fn.events[i].type \in DOMAIN fn.by_type
  /\ \A t \in DOMAIN fn.by_type : fn.by_type[t] = CountOfType(t) /\ fn.by_type[t] > 0

(***************************************************************************)
(* Claims about the commit types (TypeSpec)                                *)
(***************************************************************************)
\* C38 as stated: a message that contains none of the words fix, feat, add,
\* refactor, docs, test, chore, build is classified as change, and by_type
\* counts the types of the events.
C38_NoWordMeansChange ==
  fn.pc = "typed" =>
    /\ \A i \in 1..Len(fn.commits) :
         (\A word \in {<<"f","i","x">>, <<"f","e","a","t">>, <<"a","d","d">>,
                        <<"r","e","f","a","c","t","o","r">>, <<"d","o","c","s">>,
                        <<"t","e","s","t">>, <<"c","h","o","r","e">>,
                        <<"b","u","i","l","d">>} :
            ~Contains(fn.commits[i].message, word))
           => fn.events[i].type = "change"
    /\ SameClassification

\* C38: the type of a commit is the first match of the ordered rules
\* (starts with fix, or contains bug) -> bugfix, (starts with feat, or
\* contains add) -> feature, contains refactor -> refactor, contains doc ->
\* docs, contains test -> test, (starts with chore or build) -> chore, else
\* change, on the lowercased message; a message that contains none of fix,
\* bug, feat, add, refactor, doc, test, chore, build is classified as
\* change; by_type counts the types of the events.
C38_FirstMatchOfRules ==
  fn.pc = "typed" =>
    /\ \A i \in 1..Len(fn.commits) :
         LET m == fn.commits[i].message
             type == fn.events[i].type
             bugfix == Begins(m, <<"f","i","x">>) \/ Contains(m, <<"b","u","g">>)
             feature == Begins(m, <<"f","e","a","t">>) \/ Contains(m, <<"a","d","d">>)
             refactor == Contains(m, <<"r","e","f","a","c","t","o","r">>)
             docs == Contains(m, <<"d","o","c">>)
             test == Contains(m, <<"t","e","s","t">>)
             chore == Begins(m, <<"c","h","o","r","e">>) \/ Begins(m, <<"b","u","i","l","d">>)
         IN  /\ bugfix => type = "bugfix"
             /\ ~bugfix /\ feature => type = "feature"
             /\ ~bugfix /\ ~feature /\ refactor => type = "refactor"
             /\ ~bugfix /\ ~feature /\ ~refactor /\ docs => type = "docs"
             /\ ~bugfix /\ ~feature /\ ~refactor /\ ~docs /\ test => type = "test"
             /\ ~bugfix /\ ~feature /\ ~refactor /\ ~docs /\ ~test /\ chore
                  => type = "chore"
             /\ (\A word \in {<<"f","i","x">>, <<"b","u","g">>, <<"f","e","a","t">>,
                               <<"a","d","d">>, <<"r","e","f","a","c","t","o","r">>,
                               <<"d","o","c">>, <<"t","e","s","t">>,
                               <<"c","h","o","r","e">>, <<"b","u","i","l","d">>} :
                    ~Contains(m, word)) => type = "change"
    /\ SameClassification

\* a message that starts with fix and contains add, next to one that
\* contains none of the words
C38_Witness ==
  /\ fn.pc = "typed"
  /\ Len(fn.commits) = 2
  /\ fn.commits[1].message = "Fix padding"
  /\ fn.commits[2].message = "bump version"
  /\ fn.observations # <<>>
  /\ fn.by_type = ("bugfix" :> 2 @@ "change" :> 1)

(***************************************************************************)
(* ReadSpec: aggregateProject reads the history of a repository, with or   *)
(* without a since date.  A history lists its commits newest first; the    *)
(* first `late` ones are of 2026-02-04, the others of 2026-02-03.          *)
(***************************************************************************)
MaxHistory == 5

DatedHistory(n, late) ==
  [i \in 1..n |->
     [hash |-> FullHash(i), message |-> "docs: a", author |-> "ann",
      email |-> "ann@example.com",
      timestamp |-> IF i <= late THEN "2026-02-04T05:00:00+00:00"
                    ELSE "2026-02-03T05:00:00+00:00"]]

DatedHistories == {DatedHistory(n, late) : n \in 0..MaxHistory, late \in 0..MaxHistory}

SinceDates == {Null, Some("2026-02-03"), Some("2026-02-04")}

ReadInit ==
  /\ \E history \in DatedHistories, since \in SinceDates :
       fn = [pc |-> "unread", history |-> history, since |-> since]
  /\ IdleDialog
  /\ IdleApi
  /\ IdleTimeline

\* aggregateProject(repos, since): the options built and the commits read
CallReadHistory ==
  /\ fn.pc = "unread"
  /\ fn' = [pc |-> "read", history |-> fn.history, since |-> fn.since,
            options |-> ReadOptions(fn.since),
            commits |-> GitLog(fn.history, ReadOptions(fn.since))]
  /\ UNCHANGED <<dialogVars, apiVars, tl>>

ReadNext == CallReadHistory

ReadSpec == ReadInit /\ [][ReadNext]_vars

(***************************************************************************)
(* Claims about the history read (ReadSpec)                                *)
(***************************************************************************)
\* C39: with a since date the history is read since-bounded and without
\* the cap: every commit of that day or later is among the commits read;
\* without a since date the commits read are the newest up to the cap.
C39_SinceBoundedOrCapped ==
  fn.pc = "read" =>
    IF fn.since # Null
      THEN \A i \in 1..Len(fn.history) :
             DayRank[SplitT0(fn.history[i].timestamp)] >= DayRank[fn.since[1]]
               => \E k \in 1..Len(fn.commits) : fn.commits[k] = fn.history[i]
      ELSE fn.commits = SubSeq(fn.history, 1, Min(HistoryLimit, Len(fn.history)))

(***************************************************************************)
(* Claims about the step-based APIs (Spec)                                 *)
(***************************************************************************)
DailySessionOps ==
  {"getCurrentQuestion", "submitAnswer", "completeReflection", "cancelReflection"}

ProjectSessionOps ==
  {"getCurrentProjectQuestion", "submitProjectAnswer",
   "completeProjectReflection", "cancelProjectReflection"}

\* the project session is past its last question
ProjectComplete(session) ==
  session # Null /\ session[1].currentQuestionIndex >= Len(session[1].questions)

\* C32: submitProjectAnswer returns at most one follow_up for a question
\* before the question index advances: the submission that follows a
\* follow_up of the same session does not return follow_up again.
C32_OneProjectFollowUp ==
  [][(/\ lastCall.op = "submitProjectAnswer"
      /\ lastCall.action = "follow_up"
      /\ lastCall'.op = "submitProjectAnswer"
      /\ lastCall'.hadSession)
       => lastCall'.action # "follow_up"]_<<lastCall, currentProjectSession>>

\* C33: once every question of the project session is answered, each
\* further submitProjectAnswer call returns complete without throwing, the
\* question index never exceeds the number of questions, and the progress
\* of getProjectSessionStatus is never past total + 1.
C33_ProjectCompleteIsAbsorbing ==
  /\ [](currentProjectSession # Null =>
          /\ currentProjectSession[1].currentQuestionIndex
               <= Len(currentProjectSession[1].questions)
          /\ LET progress == GetProjectSessionStatus(currentProjectSession).progress
             IN  progress.current <= progress.total + 1)
  /\ [][(ProjectComplete(currentProjectSession) /\ lastCall'.op = "submitProjectAnswer")
          => (lastCall'.action = "complete" /\ ~lastCall'.threw)]_<<lastCall, currentProjectSession>>

\* C4: a session operation called while no session is active returns
\* success = false, does not throw, and leaves the session absent, so that
\* the status operation reports active = false afterwards -- for the daily
\* operations and for their project counterparts.
C4_NoSessionCallsFailCleanly ==
  /\ (lastCall.op \in DailySessionOps /\ ~lastCall.hadSession) =>
       /\ ~lastCall.success
       /\ ~lastCall.threw
       /\ currentSession = Null
       /\ ~GetSessionStatus(currentSession).active
  /\ (lastCall.op \in ProjectSessionOps /\ ~lastCall.hadSession) =>
       /\ ~lastCall.success
       /\ ~lastCall.threw
       /\ currentProjectSession = Null
       /\ ~GetProjectSessionStatus(currentProjectSession).active

\* submitProjectAnswer was called with no project session, after a daily
\* session had been started and while it is still active
C4_Witness ==
  /\ lastCall.op = "submitProjectAnswer"
  /\ ~lastCall.hadSession
  /\ currentSession # Null
  /\ currentProjectSession = Null

\* the aggregators the two module-level sessions hold
HeldAggregators ==
  {id \in 1..aggregators.created :
     \/ currentSession # Null /\ currentSession[1].aggregator = id
     \/ currentProjectSession # Null /\ currentProjectSession[1].aggregator = id}

\* C5: in every state between calls, the aggregators that are still open
\* are exactly the ones held by the active sessions (at most one per API),
\* and a successful completion or cancellation leaves no session behind.
C5_AggregatorsScopedToSession ==
  /\ aggregators.open = HeldAggregators
  /\ (currentSession # Null /\ currentProjectSession # Null) =>
       currentSession[1].aggregator # currentProjectSession[1].aggregator
  /\ (lastCall.op \in {"completeReflection", "cancelReflection"} /\ lastCall.success) =>
       currentSession = Null
  /\ (lastCall.op \in {"completeProjectReflection", "cancelProjectReflection"}
        /\ lastCall.success) =>
       currentProjectSession = Null

\* an init that had created its aggregator failed while a session of the
\* same API was active: two aggregators were created and none is open
C5_Witness ==
  /\ lastCall.op \in {"initReflection", "initProjectReflection"}
  /\ lastCall.hadSession
  /\ ~lastCall.success
  /\ aggregators.created = 2
  /\ aggregators.open = {}

\* C6: initReflection with an invalid date, and initProjectReflection with
\* no valid repository in the list, return success = false and leave the
\* session that was active before the call, and its open aggregator, as
\* they were.
C6_MalformedInputLeavesSession ==
  [][/\ (lastCall'.op = "initReflection" /\ ParseDateThrows(lastCall'.date)) =>
          /\ ~lastCall'.success
          /\ currentSession' = currentSession
          /\ aggregators' = aggregators
     /\ (lastCall'.op = "initProjectReflection"
           /\ Len(ValidRepos(lastCall'.repos)) = 0) =>
          /\ ~lastCall'.success
          /\ currentProjectSession' = currentProjectSession
          /\ aggregators' = aggregators]_vars

\* C7: when neither the HTTP API nor the database responds, and the date is
\* valid, the day has commits and no existing report stands in the way,
\* dailyReflect and initReflection return success = true.
C7_DegradesToGitOnly ==
  (/\ lastCall.op \in {"initReflection", "dailyReflect"}
   /\ ~ParseDateThrows(lastCall.date)
   /\ ~lastCall.api
   /\ ~lastCall.db
   /\ lastCall.commits > 0
   /\ ~(lastCall.reportExisted /\ ~lastCall.options.overwrite /\ ~lastCall.options.append))
    => lastCall.success

IsPrefix(old, new) == Len(old) <= Len(new) /\ SubSeq(new, 1, Len(old)) = old

\* C8: when a session started with the append option is completed
\* successfully and a report for its date exists, the report file afterwards
\* begins with the previous content.
C8_AppendKeepsPreviousReport ==
  [][(/\ lastCall'.op = "completeReflection"
      /\ lastCall'.success
      /\ currentSession # Null
      /\ currentSession[1].options.append
      /\ ReportExists(files, currentSession[1].date))
       => IsPrefix(files.reports[currentSession[1].date],
                   files'.reports[currentSession[1].date])]_vars


(***************************************************************************)
(* commands/daily-reflect.ts : initReflection calls that overlap.  The     *)
(* function is async: it runs without interruption up to an await, and at  *)
(* "await aggregator.checkAvailability()" and "await                       *)
(* aggregator.getDailyTimeline(date)" another call may begin or resume.    *)
(***************************************************************************)
MaxOverlap == 2

Overlapping == 1 .. MaxOverlap

\* up to the first await: "Clean up previous session", parseDate, the
\* components, and the call of checkAvailability
BeginInitReflection(session, aggs, date) ==
  LET cleaned == CleanUpPrevious(session, aggs)
  IN  IF ParseDateThrows(date)
        THEN [session |-> Null, aggregators |-> cleaned, pc |-> "returned",
              aggregator |-> 0, result |-> Failed]
        ELSE [session |-> Null, aggregators |-> NewAggregator(cleaned),
              pc |-> "checkAvailability",
              aggregator |-> cleaned.created + 1, result |-> Failed]

\* from the answer of checkAvailability to the call of getDailyTimeline
ResumeAfterAvailability(aggs, id, env) ==
  IF AvailabilityMode(env) = "unavailable"
    THEN [aggregators |-> InitFailed(aggs, id), pc |-> "returned"]
    ELSE [aggregators |-> aggs, pc |-> "getDailyTimeline"]

\* from the answer of getDailyTimeline to the return: currentSession is
\* assigned, whatever it held
ResumeAfterTimeline(session, aggs, fs, date, options, id, env) ==
  LET fetched == GetDailyObservations(env)
      events == GetDailyTimelineEvents(fetched.observations, env.repos)
      exists == ReportExists(fs, date)
      started == StartSession(events)
      failed == [session |-> session, aggregators |-> InitFailed(aggs, id),
                 files |-> fs, result |-> Failed]
  IN  IF fetched.threw THEN failed
      ELSE IF Len(events) = 0 THEN failed
      ELSE IF exists /\ ~options.overwrite /\ ~options.append THEN failed
      ELSE IF started.question = Null
        THEN [failed EXCEPT !.files =
                IF exists /\ options.overwrite THEN BackupReport(fs, date) ELSE fs]
      ELSE [session |-> Some([date |-> date,
                              events |-> events,
                              engine |-> started.ctx,
                              aggregator |-> id,
                              options |-> options]),
            aggregators |-> aggs,
            files |-> IF exists /\ options.overwrite THEN BackupReport(fs, date) ELSE fs,
            result |-> Ok]

Suspended(call) == call.pc \in {"checkAvailability", "getDailyTimeline"}

\* the environment of the process, and no call begun
OverlapInit ==
  /\ currentSession = Null
  /\ currentProjectSession = Null
  /\ aggregators = [created |-> 0, open |-> {}]
  /\ \E reports \in {<<>>, SetFile(<<>>, OldReport.date, <<OldReport>>)} :
       files = [reports |-> reports, backups |-> <<>>, projectReports |-> <<>>]
  /\ clock = 0
  /\ lastCall = [op |-> "none"]
  /\ IdleDialog
  /\ IdleTimeline
  /\ \E env \in DailyEnvs :
       fn = [pc |-> "overlap", env |-> env, overlapped |-> FALSE,
             calls |-> [c \in Overlapping |-> [pc |-> "idle"]]]

\* a caller invokes initReflection(date, options)
BeginCall ==
  \E c \in Overlapping, date \in {"2026-02-03", "invalid-date"},
     options \in DailyOptions :
    LET r == BeginInitReflection(currentSession, aggregators, date)
    IN  /\ fn.calls[c].pc = "idle"
        /\ \A b \in Overlapping : b < c => fn.calls[b].pc # "idle"
        /\ currentSession' = r.session
        /\ aggregators' = r.aggregators
        /\ fn' = [fn EXCEPT
                    !.overlapped = @ \/ \E b \in Overlapping : Suspended(fn.calls[b]),
                    !.calls[c] = [pc |-> r.pc, date |-> date, options |-> options,
                                  aggregator |-> r.aggregator,
                                  success |-> FALSE]]
        /\ UNCHANGED <<currentProjectSession, files, clock, lastCall, dialogVars, tl>>

\* checkAvailability answers a suspended call
AvailabilityAnswers ==
  \E c \in Overlapping :
    LET call == fn.calls[c]
        r == ResumeAfterAvailability(aggregators, call.aggregator, fn.env)
    IN  /\ call.pc = "checkAvailability"
        /\ aggregators' = r.aggregators
        /\ fn' = [fn EXCEPT !.calls[c].pc = r.pc]
        /\ UNCHANGED <<currentSession, currentProjectSession, files, clock,
                       lastCall, dialogVars, tl>>

\* getDailyTimeline answers a suspended call, which runs to its return
TimelineAnswers ==
  \E c \in Overlapping :
    LET call == fn.calls[c]
        r == ResumeAfterTimeline(currentSession, aggregators, files, call.date,
                                 call.options, call.aggregator, fn.env)
    IN  /\ call.pc = "getDailyTimeline"
        /\ currentSession' = r.session
        /\ aggregators' = r.aggregators
        /\ files' = r.files
        /\ fn' = [fn EXCEPT !.calls[c].pc = "returned",
                            !.calls[c].success = r.result.success]
        /\ UNCHANGED <<currentProjectSession, clock, lastCall, dialogVars, tl>>

OverlapNext == BeginCall \/ AvailabilityAnswers \/ TimelineAnswers

OverlapSpec == OverlapInit /\ [][OverlapNext]_vars

\* the aggregators a session may leave open: the current session's
HeldBySession == IF currentSession = Null THEN {} ELSE {currentSession[1].aggregator}

\* C35: when an initReflection call began while another was suspended at an
\* await, then once every call has returned no DataAggregator is open but
\* the one the current session holds.
C35_OverlapReleasesAggregators ==
  (/\ fn.overlapped
   /\ \A c \in Overlapping : fn.calls[c].pc = "returned")
    => aggregators.open \subseteq HeldBySession

===============================================================================
